---- MODULE Spec2Model ----
(***************************************************************************)
(* A model of dranet's namespace-scoped network configuration engine      *)
(* (pkg/driver: applyRoutingConfig, applyNeighborConfig, applyRulesConfig, *)
(* applyVRFConfig, enableVRFSysctls), of the VRF table defaulting          *)
(* (pkg/apis: VRFConfig.Default) and of the GCE attribute derivation       *)
(* (pkg/cloudprovider/gce: GetDeviceAttributes).                           *)
(*                                                                         *)
(* Conventions: Go's nil error is the empty sequence <<>>, a non-nil error *)
(* is a non-empty sequence of error tokens; a nil *int is the empty set    *)
(* and a pointer to n is {n}; a string that the code inspects character by *)
(* character is a sequence of one-character strings.                       *)
(***************************************************************************)
EXTENDS Integers, Sequences, FiniteSets, TLC

VARIABLES
    links,      \* [namespace -> [link name -> link record]]: the kernel's links
    routes,     \* [namespace -> set of netlink.Route]: the kernel's routing tables
    neighs,     \* [namespace -> set of netlink.Neigh]: the kernel's neighbour table
    rules,      \* [namespace -> set of netlink.Rule]: the kernel's policy rules
    sysctls,    \* [namespace -> set of sysctl names set to 1]
    threadNs,   \* [OS thread -> namespace]: the ambient namespace of each thread
    locked,     \* [OS thread -> goroutine locked to it, 0 when none]
    fr,         \* [goroutine -> frame]: arguments, locals and position of its call
    open,       \* [goroutine -> set of handles it holds open]
    log,        \* [goroutine -> sequence of kernel requests issued by its call]
    snap,       \* [goroutine -> kernel tables when its current call started]
    vrfs,       \* [config id -> VRFConfig]: the configurations being defaulted
    gce,        \* the GCEInstance, the queried identifiers and the answer
    poll,       \* GetInstance: the poll loop, its clock and the instance it builds
    inv,        \* the inventory helpers: their arguments and results
    sysfs,      \* the sysfs tree and the RDMA lookup made on it
    val,        \* ValidateConfig: the configuration, its defaulted form, the errors
    dp          \* the device plugin: the ListAndWatch stream

engineVars == <<links, routes, neighs, rules, sysctls, threadNs, locked, fr, open, log, snap>>
vars == <<links, routes, neighs, rules, sysctls, threadNs, locked, fr, open, log, snap, vrfs, gce, poll, inv, sysfs, val, dp>>

----------------------------------------------------------------------------
(* Bounds of the model *)

MaxRoutes == 3
MaxNeighs == 2
MaxRules == 2
MaxReapply == 1
NumGoroutines == 2

----------------------------------------------------------------------------
(* Small helpers *)

NoErr == <<>>

SeqsUpTo(S, n) == UNION {[1..k -> S] : k \in 0..n}

Range(s) == {s[i] : i \in DOMAIN s}

----------------------------------------------------------------------------
(* The environment: namespaces, paths, devices *)

Namespaces == {"host", "nsA", "nsB"}

\* netns.GetFromPath opens the namespace file at a path; it fails when
\* the path does not name a namespace.
NsPaths == {"/run/netns/nsA", "/run/netns/nsB", "/run/netns/gone"}

PathExists(p) == p \in {"/run/netns/nsA", "/run/netns/nsB"}

PathNs(p) == IF p = "/run/netns/nsA" THEN "nsA" ELSE "nsB"

IfNames == {"eth1", "eth9"}

VrfNames == {"vrf-blue"}

LinkNames == IfNames \cup VrfNames

NoLink == [present |-> FALSE, index |-> 0, kind |-> "", table |-> 0, up |-> FALSE, master |-> ""]

Device(idx) == [present |-> TRUE, index |-> idx, kind |-> "device", table |-> 0, up |-> TRUE, master |-> ""]

VrfLink(idx, t) == [present |-> TRUE, index |-> idx, kind |-> "vrf", table |-> t, up |-> FALSE, master |-> ""]

----------------------------------------------------------------------------
(* Address parsing (net.ParseCIDR, net.ParseIP, net.ParseMAC) on the       *)
(* address strings the model uses.                                         *)

\* net.ParseCIDR: the network of a prefix, host bits masked off; an error
\* for anything that is not address/length.
ParseCIDR(s) ==
    CASE s = "10.0.5.0/24" -> [ok |-> TRUE, net |-> "10.0.5.0/24"]
      [] s = "10.0.5.8/24" -> [ok |-> TRUE, net |-> "10.0.5.0/24"]
      [] s = "10.0.9.0/24" -> [ok |-> TRUE, net |-> "10.0.9.0/24"]
      [] s = "2001:db8::/64" -> [ok |-> TRUE, net |-> "2001:db8::/64"]
      [] OTHER -> [ok |-> FALSE, net |-> ""]

\* net.ParseIP: the address, or nil (here "") when the text is no address.
ParseIP(s) ==
    IF s \in {"10.0.5.1", "10.0.5.2", "224.0.0.1"} THEN s ELSE ""

\* net.ParseMAC
ParseMAC(s) ==
    IF s = "aa:bb:cc:dd:ee:ff" THEN [ok |-> TRUE, mac |-> s] ELSE [ok |-> FALSE, mac |-> ""]

\* Whether a network contains an address.
Covers(network, ip) == network = "10.0.5.0/24" /\ ip \in {"10.0.5.1", "10.0.5.2"}

IsV6(network) == network = "2001:db8::/64"

----------------------------------------------------------------------------
(* Configuration values (pkg/apis): the entries the engine is handed *)

RT_SCOPE_UNIVERSE == 0
RT_SCOPE_LINK == 253

\* apis.RouteConfig entries: a link route, a universe route through a
\* gateway on that link, a prefix with host bits set, a destination that is
\* a plain address and no CIDR, and a universe route in another table.
RouteEntries ==
    { [Destination |-> "10.0.5.0/24", Gateway |-> "",         Scope |-> RT_SCOPE_LINK,     Table |-> 0],
      [Destination |-> "10.0.9.0/24", Gateway |-> "10.0.5.1", Scope |-> RT_SCOPE_UNIVERSE, Table |-> 0],
      [Destination |-> "10.0.5.8/24", Gateway |-> "",         Scope |-> RT_SCOPE_LINK,     Table |-> 7],
      [Destination |-> "10.0.5.1",    Gateway |-> "",         Scope |-> RT_SCOPE_LINK,     Table |-> 0],
      [Destination |-> "10.0.9.0/24", Gateway |-> "10.0.5.1", Scope |-> RT_SCOPE_UNIVERSE, Table |-> 7] }

\* apis.NeighborConfig entries
NeighEntries ==
    [Destination : {"10.0.5.2", "224.0.0.1", "bogus"}, HardwareAddr : {"aa:bb:cc:dd:ee:ff", "zz"}]

\* apis.RuleConfig entries
RuleEntries ==
    [Priority : {100}, Table : {7}, Source : {"", "10.0.5.0/24", "bogus"},
     Destination : {"", "10.0.9.0/24", "2001:db8::/64"}]

\* *apis.VRFConfig: nil, or a name and a *int table
NilVRF == [isNil |-> TRUE, Name |-> "", Table |-> {}]

VRFConfigs ==
    {NilVRF} \cup [isNil : {FALSE}, Name : {"", "vrf-blue"}, Table : {{}, {100}}]

\* The vrfTable argument of applyRoutingConfig: 0 without a VRF, else the
\* table applyVRFConfig returned.
VrfTableArgs == {0, 100}

----------------------------------------------------------------------------
(* The kernel, as the netlink handle bound to a namespace sees it *)

\* nhNs.LinkByName
LinkByNameUnchecked(ns, name) == Device(2)

LinkByName(ns, name) == IF name \in LinkNames THEN links[ns][name] ELSE NoLink

\* The kernel's answer to RTM_NEWROUTE with NLM_F_CREATE|NLM_F_EXCL: the
\* next hop is checked first (a gateway must be on a link-scope route of the
\* table), then the presence of a route to the same destination in the table.
RouteAddResult(ns, r) ==
    IF r.Gw # "" /\ ~\E x \in routes[ns] :
                        x.Table = r.Table /\ x.Scope = RT_SCOPE_LINK /\ Covers(x.Dst, r.Gw)
    THEN "ENETUNREACH"
    ELSE IF \E x \in routes[ns] : x.Table = r.Table /\ x.Dst = r.Dst
         THEN "EEXIST"
         ELSE "ok"

\* The kernel's answer to RTM_NEWNEIGH with NLM_F_CREATE|NLM_F_EXCL; the
\* neighbour table refuses a multicast address.
NeighAddResult(ns, n) ==
    IF n.IP = "224.0.0.1" THEN "EINVAL"
    ELSE IF \E x \in neighs[ns] : x.LinkIndex = n.LinkIndex /\ x.IP = n.IP
         THEN "EEXIST"
         ELSE "ok"

\* The kernel's answer to RTM_NEWRULE with NLM_F_CREATE|NLM_F_EXCL; source
\* and destination of one rule must be of one address family.
RuleAddResult(ns, rule) ==
    IF rule.Src # "" /\ rule.Dst # "" /\ IsV6(rule.Src) # IsV6(rule.Dst) THEN "EINVAL"
    ELSE IF rule \in rules[ns] THEN "EEXIST"
         ELSE "ok"

\* errors.Is(err, syscall.EEXIST) is the one rejection the engine tolerates
IsEEXISTNever(res) == FALSE

IsEEXIST(res) == res = "EEXIST"

\* the code's test `err != nil && !errors.Is(err, syscall.EEXIST)`
AddFailed(res) == res # "ok" /\ ~IsEEXIST(res)

----------------------------------------------------------------------------
(* Goroutines, threads and frames *)

Goroutines == 1..NumGoroutines

\* The Go runtime has a thread for every goroutine that locks one.
Threads == 1..NumGoroutines

IdleFrame ==
    [pc |-> "idle", fn |-> "", nsPath |-> "", ifName |-> "",
     routeConfig |-> <<>>, neighConfig |-> <<>>, rulesConfig |-> <<>>,
     vrfConfig |-> NilVRF, vrfTable |-> 0,
     in |-> <<>>,            \* the caller's list as it was handed over
     i |-> 0, errorList |-> <<>>,
     defers |-> <<>>,        \* handles whose Close is deferred
     sdefers |-> <<>>,       \* deferred calls of enableVRFSysctls, last first
     ret |-> [err |-> NoErr, table |-> 0],
     serr |-> NoErr,         \* the error enableVRFSysctls is returning
     origns |-> "",          \* the namespace netns.Get() returned
     switched |-> FALSE,     \* netns.Set(target) succeeded
     n |-> 0,                \* how many times the call was re-applied
     prevErr |-> NoErr]      \* what the previous application returned

\* The namespace the call's handles are bound to.
TargetNs(g) == PathNs(fr[g].nsPath)

\* The kernel tables of a namespace, for before/after comparison.
Tables(ns) == [links |-> links[ns], routes |-> routes[ns], neighs |-> neighs[ns],
               rules |-> rules[ns], sysctls |-> sysctls[ns]]

AllTables == [ns \in Namespaces |-> Tables(ns)]

----------------------------------------------------------------------------
(* Entering and leaving a call *)

\* A call of one of the four apply functions with its arguments.
Enter(g, fn, nsPath, ifName, rc, nc, uc, vc, vt, n, prevErr) ==
    /\ fr' = [fr EXCEPT ![g] =
                [IdleFrame EXCEPT !.pc = IF fn = "applyVRFConfig" THEN "VrfArgs" ELSE "GetFromPath",
                                  !.fn = fn, !.nsPath = nsPath, !.ifName = ifName,
                                  !.routeConfig = rc, !.neighConfig = nc, !.rulesConfig = uc,
                                  !.vrfConfig = vc, !.vrfTable = vt,
                                  !.in = IF fn = "applyRoutingConfig" THEN rc
                                         ELSE IF fn = "applyNeighborConfig" THEN nc ELSE uc,
                                  !.n = n, !.prevErr = prevErr]]
    /\ log' = [log EXCEPT ![g] = <<>>]
    /\ snap' = [snap EXCEPT ![g] = AllTables]

\* `return`: the deferred Close calls run, the result is handed back.
ReturnFrame(f, err, table) ==
    [f EXCEPT !.pc = "done", !.ret = [err |-> err, table |-> table], !.defers = <<>>,
              !.serr = NoErr, !.origns = "", !.switched = FALSE]

RunDefers(g) == open' = [open EXCEPT ![g] = @ \ Range(fr[g].defers)]

Return(g, err, table) ==
    /\ fr' = [fr EXCEPT ![g] = ReturnFrame(@, err, table)]
    /\ RunDefers(g)

\* errors.Join: nil when there is nothing to join
Join(errorList) == IF errorList = <<>> THEN NoErr ELSE <<"joined">> \o errorList

\* `defer h.Close()`
DeferForgotten(f, h) == f

Defer(f, h) == [f EXCEPT !.defers = <<h>> \o @]

CallRouting(g) ==
    /\ fr[g].pc = "idle"
    /\ \E nsPath \in NsPaths, ifName \in IfNames,
          rc \in SeqsUpTo(RouteEntries, MaxRoutes), vt \in VrfTableArgs :
          Enter(g, "applyRoutingConfig", nsPath, ifName, rc, <<>>, <<>>, NilVRF, vt, 0, NoErr)
    /\ UNCHANGED <<links, routes, neighs, rules, sysctls, threadNs, locked, open, vrfs, gce, poll, inv, sysfs, val, dp>>

CallNeighbor(g) ==
    /\ fr[g].pc = "idle"
    /\ \E nsPath \in NsPaths, ifName \in IfNames, nc \in SeqsUpTo(NeighEntries, MaxNeighs) :
          Enter(g, "applyNeighborConfig", nsPath, ifName, <<>>, nc, <<>>, NilVRF, 0, 0, NoErr)
    /\ UNCHANGED <<links, routes, neighs, rules, sysctls, threadNs, locked, open, vrfs, gce, poll, inv, sysfs, val, dp>>

CallRules(g) ==
    /\ fr[g].pc = "idle"
    /\ \E nsPath \in NsPaths, uc \in SeqsUpTo(RuleEntries, MaxRules) :
          Enter(g, "applyRulesConfig", nsPath, "", <<>>, <<>>, uc, NilVRF, 0, 0, NoErr)
    /\ UNCHANGED <<links, routes, neighs, rules, sysctls, threadNs, locked, open, vrfs, gce, poll, inv, sysfs, val, dp>>

CallVRF(g) ==
    /\ fr[g].pc = "idle"
    /\ \E nsPath \in NsPaths, ifName \in IfNames, vc \in VRFConfigs :
          Enter(g, "applyVRFConfig", nsPath, ifName, <<>>, <<>>, <<>>, vc, 0, 0, NoErr)
    /\ UNCHANGED <<links, routes, neighs, rules, sysctls, threadNs, locked, open, vrfs, gce, poll, inv, sysfs, val, dp>>

\* The recovery path: the caller invokes the same function again with the
\* same arguments; its slices are the ones the first call was handed.
Reapply(g) ==
    /\ fr[g].pc = "done"
    /\ fr[g].n < MaxReapply
    /\ Enter(g, fr[g].fn, fr[g].nsPath, fr[g].ifName, fr[g].routeConfig, fr[g].neighConfig,
             fr[g].rulesConfig, fr[g].vrfConfig, fr[g].vrfTable, fr[g].n + 1, fr[g].ret.err)
    /\ UNCHANGED <<links, routes, neighs, rules, sysctls, threadNs, locked, open, vrfs, gce, poll, inv, sysfs, val, dp>>

----------------------------------------------------------------------------
(* The prologue the apply functions share *)

\* containerNs, err := netns.GetFromPath(path); defer containerNs.Close()
GetFromPath(g) ==
    /\ fr[g].pc = "GetFromPath"
    /\ IF PathExists(fr[g].nsPath)
       THEN /\ open' = [open EXCEPT ![g] = @ \cup {"containerNs"}]
            /\ fr' = [fr EXCEPT ![g] = [Defer(@, "containerNs") EXCEPT !.pc = "NewHandleAt"]]
       ELSE Return(g, <<"ENOENT">>, 0)
    /\ UNCHANGED <<links, routes, neighs, rules, sysctls, threadNs, locked, log, snap, vrfs, gce, poll, inv, sysfs, val, dp>>

\* nhNs, err := nlwrap.NewHandleAt(containerNs); defer nhNs.Close()
\* Opening the netlink socket can fail.
NewHandleAt(g) ==
    /\ fr[g].pc = "NewHandleAt"
    /\ \/ /\ open' = [open EXCEPT ![g] = @ \cup {"nhNs"}]
          /\ fr' = [fr EXCEPT ![g] = [Defer(@, "nhNs") EXCEPT !.pc =
                        IF fr[g].fn = "applyRulesConfig" THEN "RuleLoop" ELSE "LinkByName", !.i = 1]]
       \/ Return(g, <<"can not get netlink handle">>, 0)
    /\ UNCHANGED <<links, routes, neighs, rules, sysctls, threadNs, locked, log, snap, vrfs, gce, poll, inv, sysfs, val, dp>>

\* nsLink, err := nhNs.LinkByName(ifName)
ResolveLink(g) ==
    /\ fr[g].pc = "LinkByName"
    /\ IF LinkByName(TargetNs(g), fr[g].ifName).present
       THEN /\ fr' = [fr EXCEPT ![g].pc =
                        CASE fr[g].fn = "applyRoutingConfig" -> "SortFunc"
                          [] fr[g].fn = "applyNeighborConfig" -> "NeighLoop"
                          [] OTHER -> "VrfLinkByName"]
            /\ UNCHANGED open
       ELSE Return(g, <<"link not found for interface">>, 0)
    /\ UNCHANGED <<links, routes, neighs, rules, sysctls, threadNs, locked, log, snap, vrfs, gce, poll, inv, sysfs, val, dp>>

----------------------------------------------------------------------------
(* applyRoutingConfig *)

\* The comparison handed to slices.SortFunc: negative when a sorts before b.
ScopeCmpAscending(a, b) == a.Scope - b.Scope

ScopeCmp(a, b) == b.Scope - a.Scope

\* s is ordered by the comparison
SortedBy(s) == \A i, j \in DOMAIN s : i < j => ScopeCmp(s[i], s[j]) <= 0

\* slices.SortFunc sorts in place and is not stable: any arrangement of the
\* same elements that is ordered by the comparison can result.
SortFuncResults(s) ==
    {t \in {[i \in DOMAIN s |-> s[p[i]]] : p \in Permutations(DOMAIN s)} : SortedBy(t)}

SortRoutes(g) ==
    /\ fr[g].pc = "SortFunc"
    /\ \E t \in SortFuncResults(fr[g].routeConfig) :
          fr' = [fr EXCEPT ![g].routeConfig = t, ![g].pc = "RouteLoop", ![g].i = 1]
    /\ UNCHANGED <<links, routes, neighs, rules, sysctls, threadNs, locked, open, log, snap, vrfs, gce, poll, inv, sysfs, val, dp>>

\* The table a route is programmed into.
RouteTableIgnoringVRF(route, vrfTable) == route.Table

RouteTable(route, vrfTable) == IF vrfTable > 0 THEN vrfTable ELSE route.Table

\* The netlink.Route built from an entry whose destination parsed.
BuildRoute(g, route, dst) ==
    [LinkIndex |-> LinkByName(TargetNs(g), fr[g].ifName).index,
     Scope |-> route.Scope,
     Table |-> RouteTable(route, fr[g].vrfTable),
     Dst |-> dst,
     Gw |-> ParseIP(route.Gateway)]

\* An entry that does not parse: its error is collected, `continue`.
AbortLoop(f, err) == [f EXCEPT !.errorList = Append(@, err), !.i = Len(f.in) + 1]

SkipEntry(f, err) == [f EXCEPT !.errorList = Append(@, err), !.i = @ + 1]

\* An entry that was submitted: its error is collected unless the kernel
\* accepted it or had it already.
NextEntry(f, res, err) ==
    [f EXCEPT !.errorList = IF AddFailed(res) THEN Append(@, err) ELSE @, !.i = @ + 1]

\* One iteration of `for _, route := range routeConfig`.
RouteLoop(g) ==
    /\ fr[g].pc = "RouteLoop"
    /\ fr[g].i <= Len(fr[g].routeConfig)
    /\ LET route == fr[g].routeConfig[fr[g].i]
           cidr == ParseCIDR(route.Destination)
           r == BuildRoute(g, route, cidr.net)
           res == RouteAddResult(TargetNs(g), r)
       IN  IF ~cidr.ok
           THEN /\ fr' = [fr EXCEPT ![g] = SkipEntry(@, "invalid CIDR address")]
                /\ UNCHANGED <<routes, log>>
           ELSE /\ log' = [log EXCEPT ![g] = Append(@, [op |-> "RouteAdd", req |-> r, cfg |-> route, res |-> res])]
                /\ routes' = IF res = "ok" THEN [routes EXCEPT ![TargetNs(g)] = @ \cup {r}] ELSE routes
                /\ fr' = [fr EXCEPT ![g] = NextEntry(@, res, "fail to add route")]
    /\ UNCHANGED <<links, neighs, rules, sysctls, threadNs, locked, open, snap, vrfs, gce, poll, inv, sysfs, val, dp>>

\* A return that takes the routes of the call out again when an entry failed.
RouteReturnUndo(g) ==
    /\ fr[g].pc = "RouteLoop"
    /\ fr[g].i > Len(fr[g].routeConfig)
    /\ Return(g, Join(fr[g].errorList), 0)
    /\ routes' = IF fr[g].errorList = <<>> THEN routes
                 ELSE [ns \in Namespaces |-> snap[g][ns].routes]
    /\ UNCHANGED <<links, neighs, rules, sysctls, threadNs, locked, log, snap, vrfs, gce, poll, inv, sysfs, val, dp>>

\* return errors.Join(errorList...)
RouteReturn(g) ==
    /\ fr[g].pc = "RouteLoop"
    /\ fr[g].i > Len(fr[g].routeConfig)
    /\ Return(g, Join(fr[g].errorList), 0)
    /\ UNCHANGED <<links, routes, neighs, rules, sysctls, threadNs, locked, log, snap, vrfs, gce, poll, inv, sysfs, val, dp>>

----------------------------------------------------------------------------
(* applyNeighborConfig *)

NeighLoop(g) ==
    /\ fr[g].pc = "NeighLoop"
    /\ fr[g].i <= Len(fr[g].neighConfig)
    /\ LET neigh == fr[g].neighConfig[fr[g].i]
           ip == ParseIP(neigh.Destination)
           mac == ParseMAC(neigh.HardwareAddr)
           n == [LinkIndex |-> LinkByName(TargetNs(g), fr[g].ifName).index,
                 State |-> "NUD_PERMANENT", IP |-> ip, HardwareAddr |-> mac.mac]
           res == NeighAddResult(TargetNs(g), n)
       IN  IF ip = ""
           THEN /\ fr' = [fr EXCEPT ![g] = SkipEntry(@, "invalid ip address")]
                /\ UNCHANGED <<neighs, log>>
           ELSE IF ~mac.ok
           THEN /\ fr' = [fr EXCEPT ![g] = SkipEntry(@, "invalid mac address")]
                /\ UNCHANGED <<neighs, log>>
           ELSE /\ log' = [log EXCEPT ![g] = Append(@, [op |-> "NeighAdd", req |-> n, cfg |-> neigh, res |-> res])]
                /\ neighs' = IF res = "ok" THEN [neighs EXCEPT ![TargetNs(g)] = @ \cup {n}] ELSE neighs
                /\ fr' = [fr EXCEPT ![g] = NextEntry(@, res, "failed to add permanent neighbor entry")]
    /\ UNCHANGED <<links, routes, rules, sysctls, threadNs, locked, open, snap, vrfs, gce, poll, inv, sysfs, val, dp>>

NeighReturn(g) ==
    /\ fr[g].pc = "NeighLoop"
    /\ fr[g].i > Len(fr[g].neighConfig)
    /\ Return(g, Join(fr[g].errorList), 0)
    /\ UNCHANGED <<links, routes, neighs, rules, sysctls, threadNs, locked, log, snap, vrfs, gce, poll, inv, sysfs, val, dp>>

----------------------------------------------------------------------------
(* applyRulesConfig *)

RuleLoop(g) ==
    /\ fr[g].pc = "RuleLoop"
    /\ fr[g].i <= Len(fr[g].rulesConfig)
    /\ LET ruleCfg == fr[g].rulesConfig[fr[g].i]
           src == ParseCIDR(ruleCfg.Source)
           dst == ParseCIDR(ruleCfg.Destination)
           rule == [Priority |-> ruleCfg.Priority, Table |-> ruleCfg.Table,
                    Src |-> IF ruleCfg.Source # "" THEN src.net ELSE "",
                    Dst |-> IF ruleCfg.Destination # "" THEN dst.net ELSE ""]
           res == RuleAddResult(TargetNs(g), rule)
       IN  IF ruleCfg.Source # "" /\ ~src.ok
           THEN /\ fr' = [fr EXCEPT ![g] = SkipEntry(@, "invalid CIDR address")]
                /\ UNCHANGED <<rules, log>>
           ELSE IF ruleCfg.Destination # "" /\ ~dst.ok
           THEN /\ fr' = [fr EXCEPT ![g] = SkipEntry(@, "invalid CIDR address")]
                /\ UNCHANGED <<rules, log>>
           ELSE /\ log' = [log EXCEPT ![g] = Append(@, [op |-> "RuleAdd", req |-> rule, cfg |-> ruleCfg, res |-> res])]
                /\ rules' = IF res = "ok" THEN [rules EXCEPT ![TargetNs(g)] = @ \cup {rule}] ELSE rules
                /\ fr' = [fr EXCEPT ![g] = NextEntry(@, res, "failed to add rule")]
    /\ UNCHANGED <<links, routes, neighs, sysctls, threadNs, locked, open, snap, vrfs, gce, poll, inv, sysfs, val, dp>>

RuleReturn(g) ==
    /\ fr[g].pc = "RuleLoop"
    /\ fr[g].i > Len(fr[g].rulesConfig)
    /\ Return(g, Join(fr[g].errorList), 0)
    /\ UNCHANGED <<links, routes, neighs, rules, sysctls, threadNs, locked, log, snap, vrfs, gce, poll, inv, sysfs, val, dp>>

----------------------------------------------------------------------------
(* applyVRFConfig *)

\* The three argument checks that precede any handle.
VrfArgs(g) ==
    /\ fr[g].pc = "VrfArgs"
    /\ LET vc == fr[g].vrfConfig
       IN  IF vc.isNil THEN Return(g, <<"vrf config is nil">>, 0)
           ELSE IF vc.Name = "" THEN Return(g, <<"vrf name not specified">>, 0)
           ELSE IF vc.Table = {} THEN Return(g, <<"vrf table not specified">>, 0)
           ELSE /\ fr' = [fr EXCEPT ![g].pc = "GetFromPath",
                                    ![g].vrfTable = CHOOSE t \in vc.Table : TRUE]
                /\ UNCHANGED open
    /\ UNCHANGED <<links, routes, neighs, rules, sysctls, threadNs, locked, log, snap, vrfs, gce, poll, inv, sysfs, val, dp>>

\* A lookup whose answer is not looked at: the device is always created.
VrfLinkByNameAlwaysAdd(g) ==
    /\ fr[g].pc = "VrfLinkByName"
    /\ fr' = [fr EXCEPT ![g].pc = "LinkAdd"]
    /\ UNCHANGED <<links, routes, neighs, rules, sysctls, threadNs, locked, open, log, snap, vrfs, gce, poll, inv, sysfs, val, dp>>

\* vrfLink, err := nhNs.LinkByName(vrfName)
VrfLinkByName(g) ==
    /\ fr[g].pc = "VrfLinkByName"
    /\ fr' = [fr EXCEPT ![g].pc =
                IF LinkByName(TargetNs(g), fr[g].vrfConfig.Name).present
                THEN "LinkSetUp" ELSE "LinkAdd"]
    /\ UNCHANGED <<links, routes, neighs, rules, sysctls, threadNs, locked, open, log, snap, vrfs, gce, poll, inv, sysfs, val, dp>>

\* The index the kernel gives a new link.
FreshIndex(ns) == 1 + Cardinality({n \in LinkNames : links[ns][n].present})

\* nhNs.LinkAdd(vrfReq): the kernel refuses a name that is taken, and may
\* refuse for reasons of its own (no VRF support).
VrfLinkAdd(g) ==
    /\ fr[g].pc = "LinkAdd"
    /\ LET ns == TargetNs(g)
           name == fr[g].vrfConfig.Name
       IN  \/ /\ ~links[ns][name].present
              /\ links' = [links EXCEPT ![ns][name] = VrfLink(FreshIndex(ns), fr[g].vrfTable)]
              /\ log' = [log EXCEPT ![g] = Append(@, [op |-> "LinkAdd", req |-> name, cfg |-> name, res |-> "ok"])]
              /\ fr' = [fr EXCEPT ![g].pc = "LinkByName2"]
              /\ UNCHANGED open
           \/ /\ log' = [log EXCEPT ![g] = Append(@, [op |-> "LinkAdd", req |-> name, cfg |-> name, res |-> "failed"])]
              /\ Return(g, <<"failed to add vrf">>, 0)
              /\ UNCHANGED links
    /\ UNCHANGED <<routes, neighs, rules, sysctls, threadNs, locked, snap, vrfs, gce, poll, inv, sysfs, val, dp>>

\* vrfLink, err = nhNs.LinkByName(vrfName) after the creation
VrfLinkByName2(g) ==
    /\ fr[g].pc = "LinkByName2"
    /\ IF LinkByName(TargetNs(g), fr[g].vrfConfig.Name).present
       THEN fr' = [fr EXCEPT ![g].pc = "LinkSetUp"] /\ UNCHANGED open
       ELSE Return(g, <<"failed to find vrf after creation">>, 0)
    /\ UNCHANGED <<links, routes, neighs, rules, sysctls, threadNs, locked, log, snap, vrfs, gce, poll, inv, sysfs, val, dp>>

\* nhNs.LinkSetUp(vrfLink)
LinkSetUp(g) ==
    /\ fr[g].pc = "LinkSetUp"
    /\ LET ns == TargetNs(g)
           name == fr[g].vrfConfig.Name
       IN  \/ /\ links' = [links EXCEPT ![ns][name].up = TRUE]
              /\ log' = [log EXCEPT ![g] = Append(@, [op |-> "LinkSetUp", req |-> name, cfg |-> name, res |-> "ok"])]
              /\ fr' = [fr EXCEPT ![g].pc = "LinkSetMaster"]
              /\ UNCHANGED open
           \/ /\ log' = [log EXCEPT ![g] = Append(@, [op |-> "LinkSetUp", req |-> name, cfg |-> name, res |-> "failed"])]
              /\ Return(g, <<"failed to set up vrf">>, 0)
              /\ UNCHANGED links
    /\ UNCHANGED <<routes, neighs, rules, sysctls, threadNs, locked, snap, vrfs, gce, poll, inv, sysfs, val, dp>>

\* nhNs.LinkSetMaster(nsLink, vrfLink)
LinkSetMaster(g) ==
    /\ fr[g].pc = "LinkSetMaster"
    /\ LET ns == TargetNs(g)
           name == fr[g].vrfConfig.Name
       IN  \/ /\ links' = [links EXCEPT ![ns][fr[g].ifName].master = name]
              /\ log' = [log EXCEPT ![g] = Append(@, [op |-> "LinkSetMaster", req |-> name, cfg |-> name, res |-> "ok"])]
              /\ fr' = [fr EXCEPT ![g].pc = "LockOSThread"]
              /\ UNCHANGED open
           \/ /\ log' = [log EXCEPT ![g] = Append(@, [op |-> "LinkSetMaster", req |-> name, cfg |-> name, res |-> "failed"])]
              /\ Return(g, <<"failed to enslave">>, 0)
              /\ UNCHANGED links
    /\ UNCHANGED <<routes, neighs, rules, sysctls, threadNs, locked, snap, vrfs, gce, poll, inv, sysfs, val, dp>>

\* if err := enableVRFSysctls(int(containerNs)); err != nil { return 0, ... }
\* return int(vrfTable), nil
VrfReturn(g) ==
    /\ fr[g].pc = "VrfReturn"
    /\ IF fr[g].serr # NoErr
       THEN Return(g, <<"failed to enable vrf sysctls">> \o fr[g].serr, 0)
       ELSE Return(g, NoErr, fr[g].vrfTable)
    /\ UNCHANGED <<links, routes, neighs, rules, sysctls, threadNs, locked, log, snap, vrfs, gce, poll, inv, sysfs, val, dp>>

----------------------------------------------------------------------------
(* enableVRFSysctls *)

\* The threads a goroutine can be running on: the one it is locked to, else
\* any thread that no goroutine is locked to.
CurThreads(g) ==
    IF \E t \in Threads : locked[t] = g
    THEN {t \in Threads : locked[t] = g}
    ELSE {t \in Threads : locked[t] = 0}

\* runtime.LockOSThread: wire the goroutine to the thread it is running on.
LockNothing(g, t) == UNCHANGED locked

LockOSThread(g, t) == locked' = [locked EXCEPT ![t] = g]

\* runtime.UnlockOSThread
UnlockOSThread(g) == locked' = [t \in Threads |-> IF locked[t] = g THEN 0 ELSE locked[t]]

\* `defer f()` inside enableVRFSysctls
SysDefer(f, d) == [f EXCEPT !.sdefers = <<d>> \o @]

\* `return err` inside enableVRFSysctls: the deferred calls run next.
SysReturn(f, err) ==
    [f EXCEPT !.serr = err, !.pc = IF f.sdefers = <<>> THEN "VrfReturn" ELSE "SysDefers"]

\* runtime.LockOSThread(); defer runtime.UnlockOSThread()
SysLock(g) ==
    /\ fr[g].pc = "LockOSThread"
    /\ \E t \in CurThreads(g) : LockOSThread(g, t)
    /\ fr' = [fr EXCEPT ![g] = [SysDefer(@, "UnlockOSThread") EXCEPT !.pc = "NetnsGet"]]
    /\ UNCHANGED <<links, routes, neighs, rules, sysctls, threadNs, open, log, snap, vrfs, gce, poll, inv, sysfs, val, dp>>

\* origns, err := netns.Get(); defer origns.Close()
SysGet(g) ==
    /\ fr[g].pc = "NetnsGet"
    /\ \/ \E t \in CurThreads(g) :
            /\ open' = [open EXCEPT ![g] = @ \cup {"origns"}]
            /\ fr' = [fr EXCEPT ![g] = [SysDefer(@, "CloseOrigns") EXCEPT
                                            !.origns = threadNs[t], !.pc = "NetnsSet"]]
       \/ /\ fr' = [fr EXCEPT ![g] = SysReturn(@, <<"netns.Get failed">>)]
          /\ UNCHANGED open
    /\ UNCHANGED <<links, routes, neighs, rules, sysctls, threadNs, locked, log, snap, vrfs, gce, poll, inv, sysfs, val, dp>>

\* A switch that reports success and leaves the thread where it was.
SysSetUnswitched(g) ==
    /\ fr[g].pc = "NetnsSet"
    /\ \/ fr' = [fr EXCEPT ![g] = [SysDefer(@, "Restore") EXCEPT !.switched = TRUE, !.pc = "SetTcp"]]
       \/ fr' = [fr EXCEPT ![g] = SysReturn(@, <<"netns.Set failed">>)]
    /\ UNCHANGED <<links, routes, neighs, rules, sysctls, threadNs, locked, open, log, snap, vrfs, gce, poll, inv, sysfs, val, dp>>

\* netns.Set(netns.NsHandle(containerNsFd)); defer netns.Set(origns)
SysSet(g) ==
    /\ fr[g].pc = "NetnsSet"
    /\ \/ \E t \in CurThreads(g) :
            /\ threadNs' = [threadNs EXCEPT ![t] = TargetNs(g)]
            /\ fr' = [fr EXCEPT ![g] = [SysDefer(@, "Restore") EXCEPT
                                            !.switched = TRUE, !.pc = "SetTcp"]]
       \/ /\ fr' = [fr EXCEPT ![g] = SysReturn(@, <<"netns.Set failed">>)]
          /\ UNCHANGED threadNs
    /\ UNCHANGED <<links, routes, neighs, rules, sysctls, locked, open, log, snap, vrfs, gce, poll, inv, sysfs, val, dp>>

\* sysctlInterface.SetSysctl(name, 1) writes /proc/sys/<name> of the
\* namespace the calling thread is in.
SetSysctl(g, t, name) ==
    /\ sysctls' = [sysctls EXCEPT ![threadNs[t]] = @ \cup {name}]
    /\ log' = [log EXCEPT ![g] = Append(@, [op |-> "SetSysctl", req |-> name, cfg |-> threadNs[t], res |-> "ok"])]

SysSetTcp(g) ==
    /\ fr[g].pc = "SetTcp"
    /\ \/ \E t \in CurThreads(g) :
            /\ SetSysctl(g, t, "net/ipv4/tcp_l3mdev_accept")
            /\ fr' = [fr EXCEPT ![g].pc = "SetUdp"]
       \/ /\ fr' = [fr EXCEPT ![g] = SysReturn(@, <<"failed to set tcp_l3mdev_accept">>)]
          /\ UNCHANGED <<sysctls, log>>
    /\ UNCHANGED <<links, routes, neighs, rules, threadNs, locked, open, snap, vrfs, gce, poll, inv, sysfs, val, dp>>

SysSetUdp(g) ==
    /\ fr[g].pc = "SetUdp"
    /\ \/ \E t \in CurThreads(g) :
            /\ SetSysctl(g, t, "net/ipv4/udp_l3mdev_accept")
            /\ fr' = [fr EXCEPT ![g] = SysReturn(@, NoErr)]
       \/ /\ fr' = [fr EXCEPT ![g] = SysReturn(@, <<"failed to set udp_l3mdev_accept">>)]
          /\ UNCHANGED <<sysctls, log>>
    /\ UNCHANGED <<links, routes, neighs, rules, threadNs, locked, open, snap, vrfs, gce, poll, inv, sysfs, val, dp>>

\* The frame after one deferred call has run; after the last one
\* enableVRFSysctls has returned to applyVRFConfig.
PopDefer(f) ==
    [f EXCEPT !.sdefers = Tail(@), !.pc = IF Len(f.sdefers) = 1 THEN "VrfReturn" ELSE "SysDefers"]

\* deferred: netns.Set(origns) //nolint:errcheck -- the result is dropped
SysRestore(g) ==
    /\ fr[g].pc = "SysDefers"
    /\ fr[g].sdefers # <<>> /\ Head(fr[g].sdefers) = "Restore"
    /\ \/ \E t \in CurThreads(g) : threadNs' = [threadNs EXCEPT ![t] = fr[g].origns]
       \/ UNCHANGED threadNs
    /\ fr' = [fr EXCEPT ![g] = PopDefer(@)]
    /\ UNCHANGED <<links, routes, neighs, rules, sysctls, locked, open, log, snap, vrfs, gce, poll, inv, sysfs, val, dp>>

\* deferred: origns.Close()
SysCloseOrigns(g) ==
    /\ fr[g].pc = "SysDefers"
    /\ fr[g].sdefers # <<>> /\ Head(fr[g].sdefers) = "CloseOrigns"
    /\ open' = [open EXCEPT ![g] = @ \ {"origns"}]
    /\ fr' = [fr EXCEPT ![g] = PopDefer(@)]
    /\ UNCHANGED <<links, routes, neighs, rules, sysctls, threadNs, locked, log, snap, vrfs, gce, poll, inv, sysfs, val, dp>>

\* deferred: runtime.UnlockOSThread()
SysUnlock(g) ==
    /\ fr[g].pc = "SysDefers"
    /\ fr[g].sdefers # <<>> /\ Head(fr[g].sdefers) = "UnlockOSThread"
    /\ UnlockOSThread(g)
    /\ fr' = [fr EXCEPT ![g] = PopDefer(@)]
    /\ UNCHANGED <<links, routes, neighs, rules, sysctls, threadNs, open, log, snap, vrfs, gce, poll, inv, sysfs, val, dp>>

----------------------------------------------------------------------------
(* The engine: one allocation at a time, and its re-application *)

InitEngine ==
    /\ \E pre \in BOOLEAN :
          links = [ns \in Namespaces |-> [n \in LinkNames |->
                      IF n = "eth1" /\ ns # "host" THEN Device(2)
                      ELSE IF n = "vrf-blue" /\ ns = "nsA" /\ pre THEN VrfLink(3, 200)
                      ELSE NoLink]]
    /\ routes = [ns \in Namespaces |-> {}]
    /\ neighs = [ns \in Namespaces |-> {}]
    /\ rules = [ns \in Namespaces |-> {}]
    /\ sysctls = [ns \in Namespaces |-> {}]
    /\ threadNs = [t \in Threads |-> "host"]
    /\ locked = [t \in Threads |-> 0]
    /\ fr = [g \in Goroutines |-> IdleFrame]
    /\ open = [g \in Goroutines |-> {}]
    /\ log = [g \in Goroutines |-> <<>>]
    /\ snap = [g \in Goroutines |-> <<>>]

\* The packages outside the engine, not in use
InitOthers == poll = <<>> /\ inv = <<>> /\ sysfs = <<>> /\ val = <<>> /\ dp = <<>>

Init ==
    /\ InitEngine
    /\ vrfs = <<>>
    /\ gce = <<>>
    /\ InitOthers

\* A namespace with nothing configured yet.
InitConc == Init /\ \A ns \in Namespaces : ~links[ns]["vrf-blue"].present

\* The steps of a call once it is entered.
Step(g) ==
    \/ GetFromPath(g) \/ NewHandleAt(g) \/ ResolveLink(g)
    \/ SortRoutes(g) \/ RouteLoop(g) \/ RouteReturn(g)
    \/ NeighLoop(g) \/ NeighReturn(g)
    \/ RuleLoop(g) \/ RuleReturn(g)
    \/ VrfArgs(g) \/ VrfLinkByName(g) \/ VrfLinkAdd(g) \/ VrfLinkByName2(g)
    \/ LinkSetUp(g) \/ LinkSetMaster(g) \/ VrfReturn(g)
    \/ SysLock(g) \/ SysGet(g) \/ SysSet(g) \/ SysSetTcp(g) \/ SysSetUdp(g)
    \/ SysRestore(g) \/ SysCloseOrigns(g) \/ SysUnlock(g)

Next ==
    \/ CallRouting(1) \/ CallNeighbor(1) \/ CallRules(1) \/ CallVRF(1)
    \/ Reapply(1)
    \/ Step(1)

Spec == Init /\ [][Next]_vars

----------------------------------------------------------------------------
(* Concurrent allocations: the goroutines of the serving loop have each    *)
(* reached the sysctl step of their applyVRFConfig and call                *)
(* enableVRFSysctls with the descriptor of their container's namespace.    *)

CallEnableVRFSysctls(g) ==
    /\ fr[g].pc = "idle"
    /\ \E nsPath \in {p \in NsPaths : PathExists(p)} :
          fr' = [fr EXCEPT ![g] = [IdleFrame EXCEPT !.pc = "LockOSThread",
                                       !.fn = "enableVRFSysctls", !.nsPath = nsPath]]
    /\ UNCHANGED <<links, routes, neighs, rules, sysctls, threadNs, locked, open, log, snap, vrfs, gce, poll, inv, sysfs, val, dp>>

\* The steps of enableVRFSysctls; at "VrfReturn" it has returned to its
\* caller.
SysStep(g) ==
    \/ SysLock(g) \/ SysGet(g) \/ SysSet(g) \/ SysSetTcp(g) \/ SysSetUdp(g)
    \/ SysRestore(g) \/ SysCloseOrigns(g) \/ SysUnlock(g)

NextConc == \E g \in Goroutines : CallEnableVRFSysctls(g) \/ SysStep(g)

SpecConc == InitConc /\ [][NextConc]_vars

----------------------------------------------------------------------------
(* Properties of the engine *)

LoopFns == {"applyRoutingConfig", "applyNeighborConfig", "applyRulesConfig"}

\* The list a call works on, as the loop saw it.
ConfigList(f) ==
    CASE f.fn = "applyRoutingConfig" -> f.routeConfig
      [] f.fn = "applyNeighborConfig" -> f.neighConfig
      [] OTHER -> f.rulesConfig

\* The entry has nothing the engine fails to parse.
Parses(fn, e) ==
    CASE fn = "applyRoutingConfig" -> ParseCIDR(e.Destination).ok
      [] fn = "applyNeighborConfig" -> ParseIP(e.Destination) # "" /\ ParseMAC(e.HardwareAddr).ok
      [] OTHER -> /\ e.Source = "" \/ ParseCIDR(e.Source).ok
                  /\ e.Destination = "" \/ ParseCIDR(e.Destination).ok

\* The call returned from the end of its loop (and not from its prologue).
LoopRan(f) == f.pc = "done" /\ f.fn \in LoopFns /\ f.ret.err = Join(f.errorList)

\* The request of a log entry is in the kernel's tables.
InTables(ns, e) ==
    CASE e.op = "RouteAdd" -> e.req \in routes[ns]
      [] e.op = "NeighAdd" -> e.req \in neighs[ns]
      [] OTHER -> e.req \in rules[ns]

RouteAdds(g) == {k \in DOMAIN log[g] : log[g][k].op = "RouteAdd"}

\* C1: within one call of applyRoutingConfig no RouteAdd of a Universe-scope
\* entry is issued before the RouteAdd of a Link-scope entry, whatever the
\* order of the input list.
C1_LinkBeforeUniverse ==
    \A g \in Goroutines : \A i, j \in RouteAdds(g) :
        i < j => ~(log[g][i].req.Scope = RT_SCOPE_UNIVERSE /\ log[g][j].req.Scope = RT_SCOPE_LINK)

\* A first call handed a list that starts with a Universe entry and has a
\* Link entry after it, both of which were submitted.
C1_Witness ==
    \E g \in Goroutines :
        /\ fr[g].pc = "done" /\ fr[g].fn = "applyRoutingConfig" /\ fr[g].n = 0
        /\ Len(fr[g].in) >= 2 /\ fr[g].in[1].Scope = RT_SCOPE_UNIVERSE
        /\ \E k \in 2..Len(fr[g].in) : fr[g].in[k].Scope = RT_SCOPE_LINK
        /\ \E i, j \in RouteAdds(g) :
              log[g][i].req.Scope = RT_SCOPE_LINK /\ log[g][j].req.Scope = RT_SCOPE_UNIVERSE

\* The goroutine is inside the switch-apply-restore sequence: its switch to
\* the target namespace succeeded and its deferred restore has not run.
InSequence(g) == "Restore" \in Range(fr[g].sdefers)

C3_PinReleasedNamespaceRestored ==
    \A g \in Goroutines :
        /\ fr[g].pc \in {"VrfReturn", "done", "idle"} => \A t \in Threads : locked[t] # g
        /\ (fr[g].pc = "SysDefers" /\ fr[g].sdefers = <<"UnlockOSThread">> /\ fr[g].switched)
              => \A t \in Threads : locked[t] = g => threadNs[t] = fr[g].origns

\* C4: a re-application after an application that returned no error adds no
\* entry error (every RouteAdd, NeighAdd, RuleAdd is answered "already
\* exists", which is tolerated), returns no error once it has its handles,
\* and leaves the kernel tables as they were.
C4_ReapplyIdempotent ==
    \A g \in Goroutines :
        (fr[g].pc = "done" /\ fr[g].fn \in LoopFns /\ fr[g].n > 0 /\ fr[g].prevErr = NoErr) =>
            /\ fr[g].errorList = <<>>
            /\ AllTables = snap[g]
            /\ \A k \in DOMAIN log[g] : IsEEXIST(log[g][k].res)
            /\ fr[g].ret.err # NoErr => fr[g].ret.err = <<"can not get netlink handle">>

\* A second application of routes (neighbors, rules) that met only entries
\* already present and returned no error.
C4_Witness ==
    \E g \in Goroutines :
        /\ fr[g].pc = "done" /\ fr[g].fn = "applyRoutingConfig" /\ fr[g].n > 0
        /\ fr[g].prevErr = NoErr /\ fr[g].ret.err = NoErr
        /\ Len(log[g]) >= 2 /\ routes[TargetNs(g)] # {}

\* C5: a call that reached its loop submitted exactly the entries that
\* parse, in list order, whatever failed before them; an entry the kernel
\* refused is not in the tables; the combined error is non-nil exactly when
\* an entry did not parse or was refused for another reason than "already
\* exists".
C5_FailuresDoNotBlock ==
    \A g \in Goroutines : LoopRan(fr[g]) =>
        LET list == ConfigList(fr[g])
            valid == SelectSeq(list, LAMBDA e : Parses(fr[g].fn, e))
        IN  /\ [k \in DOMAIN log[g] |-> log[g][k].cfg] = valid
            /\ (fr[g].ret.err # NoErr) <=>
                  \/ \E k \in DOMAIN list : ~Parses(fr[g].fn, list[k])
                  \/ \E k \in DOMAIN log[g] : log[g][k].res \notin {"ok", "EEXIST"}
            /\ \A k \in DOMAIN log[g] :
                  log[g][k].res \notin {"ok", "EEXIST"} => ~InTables(TargetNs(g), log[g][k])

\* An entry that does not parse, followed by one that was submitted and
\* accepted; the call returned the combined error.
C5_Witness ==
    \E g \in Goroutines :
        /\ LoopRan(fr[g]) /\ fr[g].ret.err # NoErr
        /\ \E i, j \in DOMAIN ConfigList(fr[g]) :
              /\ i < j
              /\ ~Parses(fr[g].fn, ConfigList(fr[g])[i])
              /\ Parses(fr[g].fn, ConfigList(fr[g])[j])
        /\ \E k \in DOMAIN log[g] : log[g][k].res = "ok"

\* C6: with a VRF (vrfTable > 0) every submitted route is in the VRF's
\* table; without one (vrfTable = 0) it is in the table of its entry.
C6_VrfTableForced ==
    \A g \in Goroutines : \A k \in RouteAdds(g) :
        /\ fr[g].vrfTable > 0 => log[g][k].req.Table = fr[g].vrfTable
        /\ fr[g].vrfTable = 0 => log[g][k].req.Table = log[g][k].cfg.Table

\* A route whose entry names another table was submitted into the VRF's.
C6_Witness ==
    \E g \in Goroutines : \E k \in RouteAdds(g) :
        /\ fr[g].vrfTable > 0
        /\ log[g][k].cfg.Table \notin {0, fr[g].vrfTable}
        /\ log[g][k].req.Table = fr[g].vrfTable

\* The call got as far as looking the device up and did not find it.
DeviceAbsent(f) ==
    /\ f.fn \in {"applyRoutingConfig", "applyNeighborConfig", "applyVRFConfig"}
    /\ PathExists(f.nsPath)
    /\ ~links[PathNs(f.nsPath)][f.ifName].present

\* C7: when the device is not in the target namespace, applyRoutingConfig,
\* applyNeighborConfig and applyVRFConfig return an error, having sent the
\* kernel no request and changed nothing.
C7_AbsentDeviceIsFatal ==
    \A g \in Goroutines :
        (DeviceAbsent(fr[g]) /\ fr[g].pc # "idle") =>
            /\ log[g] = <<>>
            /\ AllTables = snap[g]
            /\ fr[g].pc = "done" => fr[g].ret.err # NoErr

\* Each of the three functions returned "link not found".
C7_Witness ==
    \E g \in Goroutines :
        /\ DeviceAbsent(fr[g]) /\ fr[g].pc = "done"
        /\ fr[g].ret.err = <<"link not found for interface">>
        /\ fr[g].fn = "applyVRFConfig"
        /\ fr[g].vrfConfig.Name = "vrf-blue"

\* C8: a goroutine that is in no call holds no handle, and enableVRFSysctls
\* has closed its handle when it is back in applyVRFConfig.
C8_NoHandleOutlivesCall ==
    \A g \in Goroutines :
        /\ fr[g].pc \in {"idle", "done"} => open[g] = {}
        /\ fr[g].pc = "VrfReturn" => "origns" \notin open[g]

\* applyVRFConfig returned the error of a failed sysctl write, after it had
\* held all three handles.
C8_Witness ==
    \E g \in Goroutines :
        /\ fr[g].pc = "done" /\ fr[g].fn = "applyVRFConfig"
        /\ fr[g].ret.err = <<"failed to enable vrf sysctls", "failed to set udp_l3mdev_accept">>
        /\ open[g] = {}

-----------------------------------------------------------------------------
(* pkg/apis: VRFConfig.Default derives the table of a VRF from its name    *)
(* with 32-bit FNV-1a. The 32-bit hash value is kept as two 16-bit limbs,  *)
(* so that no intermediate product leaves the range of the integers.       *)

NumConfigs == 2
MaxDefaultCalls == 2

Configs == 1..NumConfigs

\* The names the configurations carry
VrfNameStrings == {"", "vrf-blue", "vrf-red"}

\* []byte(c.Name)
Bytes(name) ==
    CASE name = "vrf-blue" -> <<118, 114, 102, 45, 98, 108, 117, 101>>
      [] name = "vrf-red" -> <<118, 114, 102, 45, 114, 101, 100>>
      [] OTHER -> <<>>

\* The VRFConfig values handed to Default
DefaultInputs ==
    {NilVRF} \cup [isNil : {FALSE}, Name : VrfNameStrings, Table : {{}, {100}}]

\* The number of Default calls made so far in the process
RECURSIVE CallsUpTo(_)
CallsUpTo(c) == IF c = 0 THEN 0 ELSE vrfs[c].calls + CallsUpTo(c - 1)

Invocations == CallsUpTo(NumConfigs)

\* a ^ b on the low n bits
RECURSIVE XorBits(_, _, _)
XorBits(a, b, n) ==
    IF n = 0 THEN 0
    ELSE (((a % 2) + (b % 2)) % 2) + 2 * XorBits(a \div 2, b \div 2, n - 1)

Limb == 65536

\* A hasher that starts from where the previous calls left the process.
New32aSeeded == [hi |-> 33052, lo |-> (40389 + Invocations) % Limb]

\* fnv.New32a(): a fresh hasher holding the offset basis 0x811c9dc5
New32a == [hi |-> 33052, lo |-> 40389]

\* hash *= prime32 (0x01000193 = 2^24 + 403), modulo 2^32
MulPrime32(h) ==
    LET low == h.lo * 403
    IN  [hi |-> ((h.hi * 403) + (low \div Limb) + ((h.lo % 256) * 256)) % Limb,
         lo |-> low % Limb]

\* h.Write(data): for each byte, hash ^= byte; hash *= prime32
RECURSIVE Write(_, _)
Write(h, data) ==
    IF data = <<>> THEN h
    ELSE Write(MulPrime32([h EXCEPT !.lo = XorBits(@, Head(data), 16)]), Tail(data))

\* h.Sum32() % m
Sum32Mod(h, m) == ((h.hi % m) * (Limb % m) + h.lo) % m

\* The offset reserved for VRF tables. The package constant is declared
\* outside the files at hand; the value is one that keeps the derived tables
\* clear of the tables the kernel reserves.
VRFTableOffset == 1000

\* a + b in uint32: the two limbs of the sum and the carry out of bit 31
Add32(a, b) ==
    LET lo == (a % Limb) + (b % Limb)
        hi == (a \div Limb) + (b \div Limb) + (lo \div Limb)
    IN  [hi |-> hi % Limb, lo |-> lo % Limb, carry |-> hi \div Limb]

\* func (c *VRFConfig) Default()
VRFConfigDefault(c) ==
    IF c.Table = {} /\ c.Name # ""
    THEN LET h == Write(New32a, Bytes(c.Name))
             sum == Add32(Sum32Mod(h, 1000), VRFTableOffset)
             tableID == sum.hi * Limb + sum.lo   \* int(...)
         IN  [c EXCEPT !.Table = {tableID}]
    ELSE c

\* func (c *NetworkConfig) Default() on configuration c
NetworkConfigDefault(c) ==
    /\ vrfs[c].calls < MaxDefaultCalls
    /\ vrfs' = [vrfs EXCEPT ![c] =
                  [@ EXCEPT !.VRF = IF @.isNil THEN @ ELSE VRFConfigDefault(@),  \* c.Interface.VRF != nil
                            !.calls = @ + 1]]
    /\ UNCHANGED <<engineVars, gce, poll, inv, sysfs, val, dp>>

\* Independent configurations as they were decoded, not yet defaulted; given
\* keeps what was decoded and calls counts the Default calls on each.
InitDefault ==
    /\ InitEngine
    /\ vrfs \in [Configs -> [VRF : DefaultInputs, given : DefaultInputs, calls : {0}]]
    /\ \A c \in Configs : vrfs[c].given = vrfs[c].VRF
    /\ gce = <<>>
    /\ InitOthers

NextDefault == \E c \in Configs : NetworkConfigDefault(c)

SpecDefault == InitDefault /\ [][NextDefault]_vars

\* The configuration was handed to Default with a name and no table.
Derives(c) ==
    /\ ~vrfs[c].given.isNil
    /\ vrfs[c].given.Name # ""
    /\ vrfs[c].given.Table = {}

-----------------------------------------------------------------------------
(* pkg/cloudprovider/gce: GetDeviceAttributes. The topology is a sequence  *)
(* of characters, so that trimming and splitting are computed; the other   *)
(* strings are only compared, joined or parsed as a whole.                 *)

MaxTopoLen == 8
MaxInterfaces == 2

TopoChars == {"/", "a"}

\* g.Topology
Topologies == SeqsUpTo(TopoChars, MaxTopoLen)

\* strings.TrimPrefix
TrimPrefix(s, prefix) ==
    IF Len(s) >= Len(prefix) /\ SubSeq(s, 1, Len(prefix)) = prefix
    THEN SubSeq(s, Len(prefix) + 1, Len(s))
    ELSE s

\* strings.Index, counted from 1; 0 when sep does not occur
Index(s, sep) ==
    LET at == {i \in 1..(Len(s) - Len(sep) + 1) : SubSeq(s, i, i + Len(sep) - 1) = sep}
    IN  IF at = {} THEN 0 ELSE CHOOSE i \in at : \A j \in at : i <= j

\* strings.SplitN with a non-empty sep and n > 0: at most n substrings, the
\* last one the unsplit remainder
RECURSIVE SplitN(_, _, _)
SplitN(s, sep, n) ==
    LET i == Index(s, sep)
    IN  IF n = 1 \/ i = 0 THEN <<s>>
        ELSE <<SubSeq(s, 1, i - 1)>> \o SplitN(SubSeq(s, i + Len(sep), Len(s)), sep, n - 1)

\* strings.Join: the concatenation, kept as the sequence of its pieces
RECURSIVE StringsJoin(_, _)
StringsJoin(elems, sep) ==
    IF Len(elems) = 0 THEN <<>>
    ELSE IF Len(elems) = 1 THEN elems
    ELSE <<Head(elems), sep>> \o StringsJoin(Tail(elems), sep)

\* fmt.Sscanf(network, "projects/%d/networks/%s", &projectNumber, &name)
Sscanf(network) ==
    CASE network = "projects/12345/networks/test-network" ->
            [ok |-> TRUE, projectNumber |-> 12345, name |-> "test-network"]
      [] network = "projects/67890/networks/other-network" ->
            [ok |-> TRUE, projectNumber |-> 67890, name |-> "other-network"]
      [] OTHER -> [ok |-> FALSE, projectNumber |-> 0, name |-> ""]

\* gceNetworkInterface
GceInterfaces ==
    { [Mac |-> "00:11:22:33:44:55", Network |-> "projects/12345/networks/test-network",
       IPAliases |-> <<>>],
      [Mac |-> "00:11:22:33:44:55", Network |-> "invalid-gce-network-string",
       IPAliases |-> <<"10.0.1.0/24">>],
      [Mac |-> "AA:BB:CC:DD:EE:FF", Network |-> "projects/67890/networks/other-network",
       IPAliases |-> <<"10.0.1.0/24", "10.0.2.0/24">>],
      [Mac |-> "aa:bb:cc:dd:ee:ff", Network |-> "projects/12345/networks/test-network",
       IPAliases |-> <<"10.0.2.0/24">>] }

\* id.MAC
QueryMACs == {"", "00:11:22:33:44:55", "AA:BB:CC:DD:EE:FF", "aa:bb:cc:dd:ee:ff"}

\* GCEInstance
GCEInstances ==
    [Type : {"a3-highgpu-8g"}, Topology : Topologies,
     Interfaces : SeqsUpTo(GceInterfaces, MaxInterfaces)]

AttrNames ==
    {"block", "subBlock", "host", "networkName", "networkProjectNumber",
     "ipAliases", "machineType"}

\* make(map[resourceapi.QualifiedName]resourceapi.DeviceAttribute): each
\* key holds {} when absent and {value} when present
NoAttributes == [k \in AttrNames |-> {}]

NilMap == [isNil |-> TRUE, attrs |-> NoAttributes]

Put(m, k, v) == [m EXCEPT ![k] = {v}]

\* The topology part of GetDeviceAttributes
TopologyAttributes(g, attributes) ==
    IF g.Topology # <<>>
    THEN LET topologyParts == SplitN(TrimPrefix(g.Topology, <<"/">>), <<"/">>, 3)
         IN  IF Len(topologyParts) = 3
             THEN Put(Put(Put(attributes, "block", topologyParts[1]),
                          "subBlock", topologyParts[2]),
                      "host", topologyParts[3])
             ELSE attributes
    ELSE attributes

\* strings.ToUpper on the MAC addresses at hand
ToUpper(mac) == IF mac = "aa:bb:cc:dd:ee:ff" THEN "AA:BB:CC:DD:EE:FF" ELSE mac

\* A scan that compares the addresses without regard to case.
FirstMatchFold(interfaces, mac) ==
    LET at == {i \in DOMAIN interfaces : ToUpper(interfaces[i].Mac) = ToUpper(mac)}
    IN  IF at = {} THEN 0 ELSE CHOOSE i \in at : \A j \in at : i <= j

\* A scan without the break: the last matching record wins.
LastMatch(interfaces, mac) ==
    LET at == {i \in DOMAIN interfaces : interfaces[i].Mac = mac}
    IN  IF at = {} THEN 0 ELSE CHOOSE i \in at : \A j \in at : i >= j

\* The first interface record whose Mac equals mac; 0 when there is none
FirstMatch(interfaces, mac) ==
    LET at == {i \in DOMAIN interfaces : interfaces[i].Mac = mac}
    IN  IF at = {} THEN 0 ELSE CHOOSE i \in at : \A j \in at : i <= j

\* A parse failure that returns what was gathered so far.
InterfaceAttributesPartial(interfaceForMac, attributes) ==
    LET withAliases ==
            IF Len(interfaceForMac.IPAliases) > 0
            THEN Put(attributes, "ipAliases", StringsJoin(interfaceForMac.IPAliases, ","))
            ELSE attributes
        scanned == Sscanf(interfaceForMac.Network)
    IN  IF ~scanned.ok THEN [isNil |-> FALSE, attrs |-> withAliases]
        ELSE [isNil |-> FALSE,
              attrs |-> Put(Put(withAliases, "networkName", scanned.name),
                            "networkProjectNumber", scanned.projectNumber)]

\* The per-device part of GetDeviceAttributes
InterfaceAttributes(interfaceForMac, attributes) ==
    LET withAliases ==
            IF Len(interfaceForMac.IPAliases) > 0
            THEN Put(attributes, "ipAliases", StringsJoin(interfaceForMac.IPAliases, ","))
            ELSE attributes
        scanned == Sscanf(interfaceForMac.Network)
    IN  IF ~scanned.ok THEN NilMap
        ELSE [isNil |-> FALSE,
              attrs |-> Put(Put(withAliases, "networkName", scanned.name),
                            "networkProjectNumber", scanned.projectNumber)]

\* func (g *GCEInstance) GetDeviceAttributes(id), as a function
DeviceAttributes(g, id) ==
    LET nodeLevel == TopologyAttributes(g, Put(NoAttributes, "machineType", g.Type))
        found == FirstMatch(g.Interfaces, id.MAC)
    IN  IF id.MAC = "" THEN [isNil |-> FALSE, attrs |-> nodeLevel]
        ELSE IF found # 0 THEN InterfaceAttributes(g.Interfaces[found], nodeLevel)
        ELSE [isNil |-> FALSE, attrs |-> nodeLevel]

\* One call of GetDeviceAttributes on the instance
GetDeviceAttributes ==
    /\ gce.pc = "idle"
    /\ gce' = [gce EXCEPT !.pc = "done", !.ret = DeviceAttributes(gce.g, gce.id)]
    /\ UNCHANGED <<engineVars, vrfs, poll, inv, sysfs, val, dp>>

\* The instance as GetInstance built it from the metadata, and a device
InitGCE ==
    /\ InitEngine
    /\ \A ns \in Namespaces : ~links[ns]["vrf-blue"].present
    /\ vrfs = <<>>
    /\ \E g \in GCEInstances, mac \in QueryMACs :
          gce = [g |-> g, id |-> [MAC |-> mac], pc |-> "idle", ret |-> NilMap]
    /\ InitOthers

NextGCE == GetDeviceAttributes

SpecGCE == InitGCE /\ [][NextGCE]_vars

\* The number of '/'-delimited segments of a string
Segments(s) == 1 + Cardinality({i \in DOMAIN s : s[i] = "/"})

TopologyKeys == {"block", "subBlock", "host"}

\* C10: a call that returned a set holds block, subBlock and host exactly
\* when the topology, one leading '/' trimmed, has exactly three segments;
\* otherwise it holds none of the three; machineType is there either way.
C10_ExactlyThreeSegments ==
    (gce.pc = "done" /\ ~gce.ret.isNil) =>
        /\ gce.ret.attrs["machineType"] = {gce.g.Type}
        /\ IF Segments(TrimPrefix(gce.g.Topology, <<"/">>)) = 3
           THEN \A k \in TopologyKeys : gce.ret.attrs[k] # {}
           ELSE \A k \in TopologyKeys : gce.ret.attrs[k] = {}

\* The records of the instance whose Mac is the queried one, by position
Matching == {i \in DOMAIN gce.g.Interfaces : gce.g.Interfaces[i].Mac = gce.id.MAC}

\* A MAC was queried and record i is the first to carry it.
IsFirstMatching(i) ==
    /\ gce.id.MAC # ""
    /\ i \in Matching
    /\ \A j \in Matching : i <= j

C12_NodeLevelOnly ==
    (gce.pc = "done" /\ (gce.id.MAC = "" \/ Matching = {})) =>
        LET trimmed == TrimPrefix(gce.g.Topology, <<"/">>)
            a == gce.ret.attrs
        IN  /\ ~gce.ret.isNil
            /\ a["machineType"] = {gce.g.Type}
            /\ a["networkName"] = {} /\ a["networkProjectNumber"] = {} /\ a["ipAliases"] = {}
            /\ \/ \A k \in TopologyKeys : a[k] = {}
               \/ \A k \in TopologyKeys : a[k] # {}
            /\ Segments(trimmed) < 3 => a["block"] = {}
            /\ Segments(trimmed) = 3 =>
                  /\ a["block"] # {}
                  /\ \A b \in a["block"], sb \in a["subBlock"], h \in a["host"] :
                        b \o <<"/">> \o sb \o <<"/">> \o h = trimmed

\* A MAC that differs from a record's only in case matched nothing, and the
\* node-level attributes of a parsed topology came back.
C12_Witness ==
    /\ gce.pc = "done" /\ gce.id.MAC = "aa:bb:cc:dd:ee:ff" /\ Matching = {}
    /\ \E i \in DOMAIN gce.g.Interfaces : gce.g.Interfaces[i].Mac = "AA:BB:CC:DD:EE:FF"
    /\ gce.ret.attrs["block"] = {<<"a">>}
    /\ gce.ret.attrs["subBlock"] = {<<>>}
    /\ gce.ret.attrs["host"] = {<<"a", "a">>}

\* C13: when records carry the queried MAC, the per-device attributes are
\* those of the first of them: with a network path that parses, the set
\* holds its network name and project number, its aliases joined by commas
\* (no ipAliases when it has none) and machineType.
C13_FirstMatchWins ==
    \A i \in DOMAIN gce.g.Interfaces :
        LET rec == gce.g.Interfaces[i]
            scanned == Sscanf(rec.Network)
            a == gce.ret.attrs
        IN  (gce.pc = "done" /\ IsFirstMatching(i) /\ scanned.ok) =>
                /\ ~gce.ret.isNil
                /\ a["networkName"] = {scanned.name}
                /\ a["networkProjectNumber"] = {scanned.projectNumber}
                /\ a["ipAliases"] =
                      IF rec.IPAliases = <<>> THEN {} ELSE {StringsJoin(rec.IPAliases, ",")}
                /\ a["machineType"] = {gce.g.Type}

\* Two records carry the queried MAC; the answer is the first one's network
\* and has none of the second one's aliases.
C13_Witness ==
    /\ gce.pc = "done" /\ gce.id.MAC = "00:11:22:33:44:55"
    /\ Len(gce.g.Interfaces) = 2 /\ Matching = {1, 2}
    /\ gce.g.Interfaces[1].Network # gce.g.Interfaces[2].Network
    /\ gce.g.Interfaces[2].IPAliases # <<>>
    /\ gce.ret.attrs["networkName"] = {"test-network"}
    /\ gce.ret.attrs["networkProjectNumber"] = {12345}
    /\ gce.ret.attrs["ipAliases"] = {}

-----------------------------------------------------------------------------
(* pkg/cloudprovider/gce: GetInstance polls the metadata server with       *)
(* wait.PollUntilContextTimeout(ctx, 1s, 15s, immediate). Time is counted  *)
(* in seconds since the call; the metadata calls take the poll's context   *)
(* and fail once it is done.                                               *)

PollInterval == 1
PollTimeout == 15

NilInstance ==
    [isNil |-> TRUE, Name |-> "", Type |-> "", AcceleratorProtocol |-> "",
     Interfaces |-> <<>>, Topology |-> "", current |-> FALSE]

NoCalls == [name |-> "-", type |-> "-", ifaces |-> "-", decode |-> "-", topo |-> "-"]

\* What the metadata server answers
MachineTypePaths ==
    {"projects/123/machineTypes/a3-highgpu-8g", "projects/123/machineTypes/n2-standard-4"}

InterfacesRaw == {"[{\"mac\":\"42:01:0a:80:00:46\"}]", "<html>"}

\* path.Base
PathBase(p) ==
    CASE p = "projects/123/machineTypes/a3-highgpu-8g" -> "a3-highgpu-8g"
      [] p = "projects/123/machineTypes/n2-standard-4" -> "n2-standard-4"
      [] OTHER -> p

\* NetworkProtocolMap[instanceType]; "" for a type the map does not hold
NetworkProtocolMap(instanceType) ==
    IF instanceType = "a3-highgpu-8g" THEN "GPUDirect-TCPX" ELSE ""

\* json.Unmarshal([]byte(gceInterfacesRaw), &instance.Interfaces)
Unmarshal(raw) ==
    IF raw = "[{\"mac\":\"42:01:0a:80:00:46\"}]"
    THEN [ok |-> TRUE,
          v |-> <<[Mac |-> "42:01:0a:80:00:46", Network |-> "", IPAliases |-> <<>>]>>]
    ELSE [ok |-> FALSE, v |-> <<>>]

\* The context of the poll is done: the parent was cancelled or the
\* timeout has passed.
CtxDone == poll.cancelled \/ poll.elapsed >= PollTimeout

\* ctx.Err()
CtxErr ==
    IF poll.cancelled THEN <<"context canceled">>
    ELSE IF poll.elapsed >= PollTimeout THEN <<"context deadline exceeded">>
    ELSE NoErr

\* The outcomes of a metadata call made with the poll's context
MetadataResults == IF CtxDone THEN {"err"} ELSE {"ok", "err"}

PollOthers == UNCHANGED <<engineVars, vrfs, gce, inv, sysfs, val, dp>>

\* The condition function is entered; the timer is armed for the next round.
\* current marks the instance as built by the cycle under way.
StartCycle(p) ==
    [p EXCEPT !.pc = "InstanceName", !.retry = (p.pc = "Wait"), !.calls = NoCalls,
              !.done = FALSE, !.liveAtStart = ~CtxDone, !.timerReady = FALSE,
              !.instance.current = FALSE,
              !.instanceName = "", !.instanceType = "", !.gceInterfacesRaw = ""]

\* return false, nil
RetryCycle(p) == [p EXCEPT !.pc = "CondReturned", !.done = FALSE]

\* GetInstance is called; the poll runs its condition at once.
CallGetInstance ==
    /\ poll.pc = "idle"
    /\ poll' = StartCycle(poll)
    /\ PollOthers

\* metadata.InstanceNameWithContext
InstanceName ==
    /\ poll.pc = "InstanceName"
    /\ \E res \in MetadataResults :
          poll' = IF res = "err"
                  THEN RetryCycle([poll EXCEPT !.calls.name = "err"])
                  ELSE [poll EXCEPT !.calls.name = "ok", !.instanceName = "vm-1",
                                    !.pc = "MachineType"]
    /\ PollOthers

\* metadata.GetWithContext(ctx, "instance/machine-type") and path.Base
MachineType ==
    /\ poll.pc = "MachineType"
    /\ \E res \in MetadataResults, raw \in MachineTypePaths :
          poll' = IF res = "err"
                  THEN RetryCycle([poll EXCEPT !.calls.type = "err"])
                  ELSE [poll EXCEPT !.calls.type = "ok", !.instanceType = PathBase(raw),
                                    !.pc = "NetworkInterfaces"]
    /\ PollOthers

\* metadata.GetWithContext(ctx, "instance/network-interfaces/...")
NetworkInterfaces ==
    /\ poll.pc = "NetworkInterfaces"
    /\ \E res \in MetadataResults, raw \in InterfacesRaw :
          poll' = IF res = "err"
                  THEN RetryCycle([poll EXCEPT !.calls.ifaces = "err"])
                  ELSE [poll EXCEPT !.calls.ifaces = "ok", !.gceInterfacesRaw = raw,
                                    !.pc = "Decode"]
    /\ PollOthers

\* A decoding whose failure is logged and passed over.
DecodeLenient ==
    /\ poll.pc = "Decode"
    /\ LET fresh == [isNil |-> FALSE, Name |-> poll.instanceName,
                     Type |-> poll.instanceType,
                     AcceleratorProtocol |-> NetworkProtocolMap(poll.instanceType),
                     Interfaces |-> <<>>, Topology |-> "", current |-> TRUE]
           dec == Unmarshal(poll.gceInterfacesRaw)
       IN  poll' = [poll EXCEPT !.calls.decode = IF dec.ok THEN "ok" ELSE "err",
                                !.instance = [fresh EXCEPT !.Interfaces = dec.v],
                                !.pc = "PhysicalHost"]
    /\ PollOthers

\* instance = &GCEInstance{...} and json.Unmarshal into its Interfaces
Decode ==
    /\ poll.pc = "Decode"
    /\ LET fresh == [isNil |-> FALSE, Name |-> poll.instanceName,
                     Type |-> poll.instanceType,
                     AcceleratorProtocol |-> NetworkProtocolMap(poll.instanceType),
                     Interfaces |-> <<>>, Topology |-> "", current |-> TRUE]
           dec == Unmarshal(poll.gceInterfacesRaw)
       IN  poll' = IF ~dec.ok
                   THEN RetryCycle([poll EXCEPT !.calls.decode = "err", !.instance = fresh])
                   ELSE [poll EXCEPT !.calls.decode = "ok",
                                     !.instance = [fresh EXCEPT !.Interfaces = dec.v],
                                     !.pc = "PhysicalHost"]
    /\ PollOthers

\* A condition that gives up when the physical host is not to be had.
AfterPhysicalHostStrict(p, res) ==
    [p EXCEPT !.calls.topo = res,
              !.instance.Topology = IF res = "ok" THEN "/b/sb/h" ELSE @,
              !.done = (res = "ok"), !.pc = "CondReturned"]

\* The end of the condition: the topology is kept when the call gave one,
\* and the condition returns true, nil either way.
AfterPhysicalHost(p, res) ==
    [p EXCEPT !.calls.topo = res,
              !.instance.Topology = IF res = "ok" THEN "/b/sb/h" ELSE @,
              !.done = TRUE, !.pc = "CondReturned"]

\* metadata.GetWithContext(ctx, "instance/attributes/physical_host")
PhysicalHost ==
    /\ poll.pc = "PhysicalHost"
    /\ \E res \in MetadataResults : poll' = AfterPhysicalHost(poll, res)
    /\ PollOthers

\* The poll loop takes the condition's answer: done ends the poll without
\* an error, not done sends it to wait for the timer.
CondReturned ==
    /\ poll.pc = "CondReturned"
    /\ poll' = IF poll.done THEN [poll EXCEPT !.pc = "PollReturned", !.perr = NoErr]
               ELSE [poll EXCEPT !.pc = "Wait"]
    /\ PollOthers

\* The timer fires with the context live: the condition runs again.
TimerFires ==
    /\ poll.pc = "Wait"
    /\ ~CtxDone
    /\ poll.timerReady
    /\ poll' = StartCycle(poll)
    /\ PollOthers

\* The context is done while the loop waits, or is found done after the
\* timer fired: the poll ends with the context's error.
ContextDone ==
    /\ poll.pc = "Wait"
    /\ CtxDone
    /\ poll' = [poll EXCEPT !.pc = "PollReturned", !.perr = CtxErr]
    /\ PollOthers

\* A return that hands out whatever instance was built last.
GetInstanceReturnLeaky(p) == [instance |-> p.instance, err |-> p.perr]

\* if err != nil { return nil, err }; return instance, nil
GetInstanceReturn(p) ==
    IF p.perr # NoErr THEN [instance |-> NilInstance, err |-> p.perr]
    ELSE [instance |-> p.instance, err |-> NoErr]

PollReturned ==
    /\ poll.pc = "PollReturned"
    /\ poll' = [poll EXCEPT !.pc = "done", !.ret = GetInstanceReturn(poll)]
    /\ PollOthers

\* One interval passes: the timer armed before it is due.
Tick ==
    /\ poll.pc \notin {"idle", "done"}
    /\ poll.elapsed < PollTimeout
    /\ poll' = [poll EXCEPT !.elapsed = @ + PollInterval, !.timerReady = TRUE]
    /\ PollOthers

\* The caller's context is cancelled.
Cancel ==
    /\ poll.pc \notin {"idle", "done"}
    /\ ~poll.cancelled
    /\ poll' = [poll EXCEPT !.cancelled = TRUE]
    /\ PollOthers

InitGetInstance ==
    /\ InitEngine
    /\ \A ns \in Namespaces : ~links[ns]["vrf-blue"].present
    /\ vrfs = <<>> /\ gce = <<>> /\ inv = <<>> /\ sysfs = <<>> /\ val = <<>> /\ dp = <<>>
    /\ \E c \in BOOLEAN :
          poll = [pc |-> "idle", elapsed |-> 0, cancelled |-> c, retry |-> FALSE,
                  liveAtStart |-> TRUE, timerReady |-> FALSE, calls |-> NoCalls, done |-> FALSE,
                  instanceName |-> "", instanceType |-> "", gceInterfacesRaw |-> "",
                  instance |-> NilInstance, perr |-> NoErr,
                  ret |-> [instance |-> NilInstance, err |-> NoErr]]

NextGetInstance ==
    \/ CallGetInstance
    \/ InstanceName \/ MachineType \/ NetworkInterfaces \/ Decode \/ PhysicalHost
    \/ CondReturned \/ TimerFires \/ ContextDone \/ PollReturned
    \/ Tick \/ Cancel

SpecGetInstance == InitGetInstance /\ [][NextGetInstance]_vars

\* Time passes and every call returns.
FairGetInstance == SpecGetInstance /\ WF_vars(NextGetInstance)

\* The condition function is under way.
InCycle ==
    poll.pc \in {"InstanceName", "MachineType", "NetworkInterfaces", "Decode", "PhysicalHost"}

\* The four required steps of the cycle under way all succeeded.
RequiredOk ==
    /\ poll.calls.name = "ok" /\ poll.calls.type = "ok"
    /\ poll.calls.ifaces = "ok" /\ poll.calls.decode = "ok"

\* C14: a cycle reports done exactly when its own name, machine-type and
\* interface calls and the decoding succeeded; otherwise it reports not
\* done and the next cycle starts again from the first call. A failed
\* physical-host call leaves the cycle done, with an empty Topology.
C14_CycleAllOrRetry ==
    /\ poll.pc = "CondReturned" =>
          /\ poll.done <=> RequiredOk
          /\ poll.done => ~poll.instance.isNil /\ poll.instance.current
          /\ poll.calls.topo = "err" => poll.done /\ poll.instance.Topology = ""
    /\ poll.pc = "Wait" => ~poll.done
    /\ poll.pc = "InstanceName" => poll.calls = NoCalls /\ ~poll.instance.current

\* A retried cycle is done although its physical-host call failed.
C14_Witness ==
    /\ poll.pc = "CondReturned" /\ poll.retry /\ poll.done
    /\ poll.calls.topo = "err"
    /\ poll.instance.Topology = ""
    /\ poll.instance.Interfaces # <<>>

\* What GetInstance returned, against what its poll saw
ReturnedRight ==
    poll.pc = "done" =>
        IF poll.done
        THEN /\ poll.ret.err = NoErr
             /\ poll.ret.instance = poll.instance
             /\ ~poll.instance.isNil /\ poll.instance.current
        ELSE /\ poll.ret.err # NoErr
             /\ poll.ret.instance = NilInstance
             /\ CtxDone

\* C15: GetInstance returns; with a cycle that was done it returns that
\* cycle's instance and no error, else, the context being done, an error
\* and no instance; and no cycle after the first starts with the context
\* done.
C15_Terminates ==
    /\ <>(poll.pc = "done")
    /\ [](ReturnedRight /\ ((InCycle /\ poll.retry) => poll.liveAtStart))

\* The timeout passed on a cycle that had built an instance and failed to
\* decode its interfaces: an error came back, and no instance.
C15_Witness ==
    /\ poll.pc = "done" /\ ~poll.cancelled /\ poll.elapsed = PollTimeout
    /\ poll.retry /\ poll.calls.decode = "err" /\ ~poll.instance.isNil
    /\ poll.ret.err = <<"context deadline exceeded">>
    /\ poll.ret.instance = NilInstance

\* The machine-type names: the last segment of what the server answers
MachineTypeNames == {PathBase(p) : p \in MachineTypePaths}

\* C29: GetInstance hands out no partial snapshot. It returns a non-nil
\* instance and a nil error, the instance's name, machine type (the last
\* path segment only), interfaces and topology all being those of the one
\* cycle that succeeded, or a nil instance and a non-nil error; an instance
\* of a cycle whose interfaces did not decode is never returned.
C29_WholeSnapshotOrNone ==
    poll.pc = "done" =>
        /\ \/ /\ poll.ret.err = NoErr
              /\ ~poll.ret.instance.isNil /\ poll.ret.instance.current
              /\ RequiredOk
              /\ poll.ret.instance.Name = poll.instanceName /\ poll.instanceName # ""
              /\ poll.ret.instance.Type = poll.instanceType
              /\ poll.ret.instance.Type \in MachineTypeNames \ MachineTypePaths
              /\ Unmarshal(poll.gceInterfacesRaw).ok
              /\ poll.ret.instance.Interfaces = Unmarshal(poll.gceInterfacesRaw).v
              /\ poll.ret.instance.Topology = IF poll.calls.topo = "ok" THEN "/b/sb/h" ELSE ""
           \/ /\ poll.ret.err # NoErr
              /\ poll.ret.instance = NilInstance
        /\ poll.calls.decode = "err" => poll.ret.instance = NilInstance

\* After a cycle that failed, a cycle succeeded with all five calls, and its
\* instance came back.
C29_Witness ==
    /\ poll.pc = "done" /\ poll.retry
    /\ poll.ret.err = NoErr
    /\ poll.ret.instance.Type = "a3-highgpu-8g"
    /\ poll.ret.instance.Interfaces # <<>>
    /\ poll.ret.instance.Topology = "/b/sb/h"

-----------------------------------------------------------------------------
(* The inventory helpers getProviderAttributes and                         *)
(* getLastSegmentAndTruncate. Their bodies are outside the files at hand;  *)
(* they are modelled from their description and their tests.               *)

MaxPathLen == 5
MaxLength == 3

PathChars == {"/", "a", "b"}

\* *resourceapi.Device: nil, or a name and the attributes it declares
NilDevice == [isNil |-> TRUE, Name |-> "", mac |-> {}, pciAddress |-> {}]

Devices ==
    {NilDevice}
    \cup [isNil : {FALSE}, Name : {"dev1"},
          mac : {{}, {"00:11:22:33:44:55"}, {"aa:bb:cc:dd:ee:ff"}}, pciAddress : {{}}]
    \cup {[isNil |-> FALSE, Name |-> "dev-pci-1", mac |-> {}, pciAddress |-> {"0000:00:01.0"}]}

\* cloudprovider.CloudInstance: nil, or a GCE instance
NilCloudInstance == [isNil |-> TRUE, g |-> [Type |-> "", Topology |-> <<>>, Interfaces |-> <<>>]]

CloudInstances ==
    {NilCloudInstance}
    \cup [isNil : {FALSE},
          g : [Type : {"a3-highgpu-8g"}, Topology : {<<>>, <<"/", "a", "/", "b", "/", "a">>},
               Interfaces : SeqsUpTo(GceInterfaces, MaxInterfaces)]]

\* The MAC attribute the device declares, "" when it declares none
DeclaredMAC(device) == IF device.mac = {} THEN "" ELSE CHOOSE m \in device.mac : TRUE

\* A resolver that asks the provider about the device by its name.
getProviderAttributesByName(device, instance) ==
    IF device.isNil \/ instance.isNil THEN NilMap
    ELSE DeviceAttributes(instance.g, [MAC |-> device.Name])

\* getProviderAttributes(device, instance)
getProviderAttributes(device, instance) ==
    IF device.isNil \/ instance.isNil THEN NilMap
    ELSE DeviceAttributes(instance.g, [MAC |-> DeclaredMAC(device)])

\* strings.LastIndex, counted from 1; 0 when sep does not occur
LastIndex(s, sep) ==
    LET at == {i \in 1..(Len(s) - Len(sep) + 1) : SubSeq(s, i, i + Len(sep) - 1) = sep}
    IN  IF at = {} THEN 0 ELSE CHOOSE i \in at : \A j \in at : i >= j

\* A helper that cuts at the first separator.
getFirstSegmentAndTruncate(s, maxLength) ==
    LET i == Index(s, <<"/">>)
        segment == SubSeq(s, i + 1, Len(s))
    IN  IF Len(segment) > maxLength THEN SubSeq(segment, 1, maxLength) ELSE segment

\* getLastSegmentAndTruncate(s, maxLength)
getLastSegmentAndTruncate(s, maxLength) ==
    LET i == LastIndex(s, <<"/">>)
        segment == SubSeq(s, i + 1, Len(s))
    IN  IF Len(segment) > maxLength THEN SubSeq(segment, 1, maxLength) ELSE segment

InvIdle ==
    [pc |-> "idle", fn |-> "", device |-> NilDevice, instance |-> NilCloudInstance,
     s |-> <<>>, maxLength |-> 0, attrs |-> NilMap, name |-> <<>>]

InvOthers == UNCHANGED <<engineVars, vrfs, gce, poll, sysfs, val, dp>>

\* One call of getProviderAttributes
CallGetProviderAttributes ==
    /\ inv.pc = "idle"
    /\ \E device \in Devices, instance \in CloudInstances :
          inv' = [inv EXCEPT !.pc = "done", !.fn = "getProviderAttributes",
                             !.device = device, !.instance = instance,
                             !.attrs = getProviderAttributes(device, instance)]
    /\ InvOthers

\* One call of getLastSegmentAndTruncate
CallGetLastSegmentAndTruncate ==
    /\ inv.pc = "idle"
    /\ \E s \in SeqsUpTo(PathChars, MaxPathLen), maxLength \in 0..MaxLength :
          inv' = [inv EXCEPT !.pc = "done", !.fn = "getLastSegmentAndTruncate",
                             !.s = s, !.maxLength = maxLength,
                             !.name = getLastSegmentAndTruncate(s, maxLength)]
    /\ InvOthers

InitInventory ==
    /\ InitEngine
    /\ \A ns \in Namespaces : ~links[ns]["vrf-blue"].present
    /\ vrfs = <<>> /\ gce = <<>> /\ poll = <<>> /\ sysfs = <<>> /\ val = <<>> /\ dp = <<>>
    /\ inv = InvIdle

NextInventory == CallGetProviderAttributes \/ CallGetLastSegmentAndTruncate

SpecInventory == InitInventory /\ [][NextInventory]_vars

\* C16: getProviderAttributes returns nil when the device or the instance
\* is absent, and otherwise what the instance's GetDeviceAttributes returns
\* for the MAC the device declares, the empty MAC when it declares none.
C16_ResolveDelegates ==
    (inv.pc = "done" /\ inv.fn = "getProviderAttributes") =>
        IF inv.device.isNil \/ inv.instance.isNil
        THEN inv.attrs = NilMap
        ELSE \E mac \in QueryMACs :
                /\ inv.device.mac \in {{mac}} \cup (IF mac = "" THEN {{}} ELSE {})
                /\ inv.attrs = DeviceAttributes(inv.instance.g, [MAC |-> mac])

\* A device with a declared MAC got the network of the matching record.
C16_Witness ==
    /\ inv.pc = "done" /\ inv.fn = "getProviderAttributes"
    /\ inv.device.mac = {"00:11:22:33:44:55"} /\ ~inv.instance.isNil
    /\ inv.attrs.attrs["networkName"] = {"test-network"}
    /\ inv.attrs.attrs["host"] = {<<"a">>}

\* s is cut after its last '/': head is empty or ends in '/', and tail
\* holds none.
CutAfterLastSlash(s, head, tail) ==
    /\ s = head \o tail
    /\ head = <<>> \/ head[Len(head)] = "/"
    /\ \A i \in DOMAIN tail : tail[i] # "/"

\* C17: the result is the part of s after its last '/', all of it when it
\* has at most maxLength characters and its first maxLength ones otherwise;
\* it is never longer than maxLength and holds no '/'.
C17_LastSegmentTruncated ==
    (inv.pc = "done" /\ inv.fn = "getLastSegmentAndTruncate") =>
        /\ Len(inv.name) <= inv.maxLength
        /\ \A i \in DOMAIN inv.name : inv.name[i] # "/"
        /\ \E k \in 0..Len(inv.s) :
              LET head == SubSeq(inv.s, 1, k)
                  tail == SubSeq(inv.s, k + 1, Len(inv.s))
              IN  /\ CutAfterLastSlash(inv.s, head, tail)
                  /\ inv.name = IF Len(tail) <= inv.maxLength THEN tail
                                ELSE SubSeq(tail, 1, inv.maxLength)

\* A path with two separators and a last segment longer than maxLength
C17_Witness ==
    /\ inv.pc = "done" /\ inv.fn = "getLastSegmentAndTruncate"
    /\ inv.s = <<"b", "/", "/", "a", "b">> /\ inv.maxLength = 1
    /\ inv.name = <<"a">>

-----------------------------------------------------------------------------
(* pkg/driver: the sysfs fallback of the RDMA device lookup,               *)
(* getRdmaDeviceFromSysfs(basePath, ifName).                               *)

\* The interfaces looked up under basePath
SysfsIfNames == {"eth0", "eth1"}

\* The names an entry of <base>/<ifName>/device/infiniband can have, in the
\* order os.ReadDir lists them (sorted by file name)
EntryNames == <<"mlx5_0", "mlx5_1", "somefile">>

\* What a name is in the directory: nothing, a directory, a regular file
\* or a symbolic link
EntryKinds == {"none", "dir", "file", "link"}

\* <base>/<ifName>/device/infiniband: missing (with or without the
\* interface and its device directory), something that is no directory, or
\* a directory with its entries
RdmaDirs ==
    [state : {"absent", "notdir"}, kind : {[i \in DOMAIN EntryNames |-> "none"]}]
    \cup [state : {"dir"}, kind : [DOMAIN EntryNames -> EntryKinds]]

\* os.ReadDir(rdmaDir): the entries sorted by name, or an error
ReadDir(rdmaDir) ==
    IF rdmaDir.state # "dir"
    THEN [err |-> <<"no such file or directory">>, entries |-> <<>>]
    ELSE [err |-> NoErr,
          entries |-> SelectSeq([i \in DOMAIN EntryNames |->
                                    [Name |-> EntryNames[i], kind |-> rdmaDir.kind[i]]],
                                LAMBDA e : e.kind # "none")]

\* An entry test that takes anything for a device.
IsAnything(entry) == TRUE

\* entry.IsDir()
IsDir(entry) == entry.kind = "dir"

\* getRdmaDeviceFromSysfs: the first entry that is a directory
getRdmaDeviceFromSysfs(tree, ifName) ==
    LET read == ReadDir(tree[ifName])
        dirs == {i \in DOMAIN read.entries : IsDir(read.entries[i])}
    IN  IF read.err # NoErr
        THEN [name |-> "", err |-> <<"no RDMA device for">> \o read.err]
        ELSE IF dirs # {}
        THEN [name |-> read.entries[CHOOSE i \in dirs : \A j \in dirs : i <= j].Name,
              err |-> NoErr]
        ELSE [name |-> "", err |-> <<"no RDMA device found for">>]

SysfsOthers == UNCHANGED <<engineVars, vrfs, gce, poll, inv, val, dp>>

\* One lookup
CallGetRdmaDeviceFromSysfs ==
    /\ sysfs.pc = "idle"
    /\ \E ifName \in SysfsIfNames :
          sysfs' = [sysfs EXCEPT !.pc = "done", !.ifName = ifName,
                                 !.ret = getRdmaDeviceFromSysfs(sysfs.tree, ifName)]
    /\ SysfsOthers

InitSysfs ==
    /\ InitEngine
    /\ \A ns \in Namespaces : ~links[ns]["vrf-blue"].present
    /\ vrfs = <<>> /\ gce = <<>> /\ poll = <<>> /\ inv = <<>> /\ val = <<>> /\ dp = <<>>
    /\ \E tree \in [SysfsIfNames -> RdmaDirs] :
          sysfs = [tree |-> tree, pc |-> "idle", ifName |-> "",
                   ret |-> [name |-> "", err |-> NoErr]]

NextSysfs == CallGetRdmaDeviceFromSysfs

SpecSysfs == InitSysfs /\ [][NextSysfs]_vars

\* The names of the sub-directories of the interface's infiniband directory
SubDirs(ifName) ==
    IF sysfs.tree[ifName].state # "dir" THEN {}
    ELSE {EntryNames[i] : i \in {j \in DOMAIN EntryNames : sysfs.tree[ifName].kind[j] = "dir"}}

\* C18: with at least one sub-directory in the interface's infiniband
\* directory the lookup returns the name of one of them and no error; with
\* the directory missing, empty or holding no directory it returns an
\* error and the empty name.
C18_SysfsLookup ==
    sysfs.pc = "done" =>
        IF SubDirs(sysfs.ifName) # {}
        THEN sysfs.ret.err = NoErr /\ sysfs.ret.name \in SubDirs(sysfs.ifName)
        ELSE sysfs.ret.err # NoErr /\ sysfs.ret.name = ""

\* A regular file sorts first and two directories follow: the lookup of
\* eth1 returned a directory, while eth0 has no infiniband directory.
C18_Witness ==
    /\ sysfs.pc = "done" /\ sysfs.ifName = "eth1"
    /\ sysfs.tree["eth0"].state = "absent"
    /\ sysfs.tree["eth1"].kind = <<"file", "dir", "dir">>
    /\ sysfs.ret = [name |-> "mlx5_1", err |-> NoErr]

-----------------------------------------------------------------------------
(* Further properties of the engine *)

\* C19: when an apply function has returned, the list it was handed holds
\* the same entries in the same order as at the call.
C19_ConfigNotMutated ==
    \A g \in Goroutines :
        (fr[g].pc = "done" /\ fr[g].fn \in LoopFns) => ConfigList(fr[g]) = fr[g].in

\* The call asked the kernel to create a link.
AskedLinkAdd(g) == \E k \in DOMAIN log[g] : log[g][k].op = "LinkAdd"

\* C20: applyVRFConfig asks for the creation of the VRF device only when
\* the namespace held no link of that name at the call; a call that
\* succeeds leaves the link of that name present and up, the same link when
\* there was one, with the target device enslaved to it; and a call that
\* follows a successful one with the same arguments creates nothing.
C20_VrfDeviceReused ==
    \A g \in Goroutines :
        (fr[g].fn = "applyVRFConfig" /\ PathExists(fr[g].nsPath) /\ ~fr[g].vrfConfig.isNil) =>
            LET ns == TargetNs(g)
                name == fr[g].vrfConfig.Name
                before == snap[g][ns].links
            IN  /\ AskedLinkAdd(g) => ~before[name].present
                /\ (fr[g].pc = "done" /\ fr[g].ret.err = NoErr) =>
                      /\ links[ns][name].present /\ links[ns][name].up
                      /\ links[ns][fr[g].ifName].master = name
                      /\ before[name].present => links[ns][name].index = before[name].index
                /\ (fr[g].n > 0 /\ fr[g].prevErr = NoErr) => ~AskedLinkAdd(g)

\* A second successful call found the device the first one had created and
\* created nothing.
C20_Witness ==
    \E g \in Goroutines :
        /\ fr[g].fn = "applyVRFConfig" /\ fr[g].pc = "done"
        /\ fr[g].n = 1 /\ fr[g].prevErr = NoErr /\ fr[g].ret.err = NoErr
        /\ ~AskedLinkAdd(g)
        /\ links[TargetNs(g)]["vrf-blue"].up
        /\ links[TargetNs(g)]["vrf-blue"].table = 100
        /\ links[TargetNs(g)][fr[g].ifName].master = "vrf-blue"

-----------------------------------------------------------------------------
(* pkg/apis: ValidateConfig on a decoded NetworkConfig. The interface      *)
(* fields other than the name and the VRF are left unset, which the        *)
(* validation passes without a check. An error is a record of the entry    *)
(* (0 outside the lists), the field path and the message.                  *)

MaxValRoutes == 1

Err(at, field, msg) == [at |-> at, field |-> field, msg |-> msg]

\* The routes handed to the validation
ValRouteEntries ==
    [Destination : {"", "10.0.5.0/24", "10.0.5.1", "bogus"},
     Gateway : {"", "10.0.5.1"},
     Scope : {RT_SCOPE_UNIVERSE, RT_SCOPE_LINK, 200}, Table : {0}]
    \cup {[Destination |-> "10.0.5.0/24", Gateway |-> "bogus", Scope |-> RT_SCOPE_UNIVERSE, Table |-> 0],
          [Destination |-> "10.0.5.0/24", Gateway |-> "", Scope |-> RT_SCOPE_LINK, Table |-> -1]}

\* The rule and neighbor lists handed to the validation
ValRuleLists ==
    { <<>>,
      <<[Priority |-> 100, Table |-> 7, Source |-> "10.0.5.0/24", Destination |-> ""]>>,
      <<[Priority |-> 40000, Table |-> 7, Source |-> "bogus", Destination |-> ""]>> }

ValNeighLists == { <<>>, <<[Destination |-> "10.0.5.2", HardwareAddr |-> "zz"]>> }

\* The VRF of the interface: none, or a name and a *int table
ValVRFs ==
    {NilVRF}
    \cup [isNil : {FALSE}, Name : VrfNameStrings, Table : {{}, {-1}, {0}, {100}, {253}, {254}, {255}}]

NetworkConfigs ==
    [Name : {"eth0", "eth/0"}, VRF : ValVRFs,
     Routes : SeqsUpTo(ValRouteEntries, MaxValRoutes),
     Rules : ValRuleLists, Neighbors : ValNeighLists]

\* The zero NetworkConfig
ZeroConfig == [Name |-> "", VRF |-> NilVRF, Routes |-> <<>>, Rules |-> <<>>, Neighbors |-> <<>>]

\* The raw extension: nothing, bytes that do not decode, or JSON that decodes
\* to a configuration, with or without a field the type does not know
RawExtensions ==
    [bytes : {"none", "garbage"}, unknownField : {FALSE}, decoded : {ZeroConfig}]
    \cup [bytes : {"json"}, unknownField : BOOLEAN, decoded : NetworkConfigs]

\* isValidLinuxInterfaceName on the names at hand
isValidLinuxInterfaceName(name) ==
    IF name = "eth/0" THEN <<Err(0, "interface.name", "cannot contain '/'")>> ELSE <<>>

\* A VRF check that lets the reserved tables through.
validateVRFConfigUnreserved(cfg) ==
    (IF cfg.Name = "" THEN <<Err(0, "interface.vrf.name", "cannot be empty")>> ELSE <<>>)
    \o (IF \E t \in cfg.Table : t <= 0
        THEN <<Err(0, "interface.vrf.table", "must be a positive integer")>> ELSE <<>>)

\* validateVRFConfig
validateVRFConfig(cfg) ==
    (IF cfg.Name = "" THEN <<Err(0, "interface.vrf.name", "cannot be empty")>> ELSE <<>>)
    \o (IF \E t \in cfg.Table : t <= 0
        THEN <<Err(0, "interface.vrf.table", "must be a positive integer")>> ELSE <<>>)
    \o (IF \E t \in cfg.Table : t \in {253, 254, 255}
        THEN <<Err(0, "interface.vrf.table", "cannot use reserved table ID")>> ELSE <<>>)

\* validateInterfaceConfig
validateInterfaceConfig(config) ==
    isValidLinuxInterfaceName(config.Name)
    \o (IF config.VRF.isNil THEN <<>> ELSE validateVRFConfig(config.VRF))

\* A route check that asks no gateway of anyone.
validateRouteAnyGateway(route, i) ==
    (IF route.Destination = ""
     THEN <<Err(i, "routes.destination", "cannot be empty")>>
     ELSE IF ~ParseCIDR(route.Destination).ok /\ ParseIP(route.Destination) = ""
     THEN <<Err(i, "routes.destination", "invalid IP or CIDR format")>> ELSE <<>>)
    \o (IF route.Scope # RT_SCOPE_UNIVERSE /\ route.Scope # RT_SCOPE_LINK
        THEN <<Err(i, "routes.scope", "invalid scope")>> ELSE <<>>)
    \o (IF route.Gateway # "" /\ ParseIP(route.Gateway) = ""
        THEN <<Err(i, "routes.gateway", "invalid IP address format")>> ELSE <<>>)
    \o (IF route.Table < 0 THEN <<Err(i, "routes.table", "must be a non-negative integer")>> ELSE <<>>)

\* The body of the loop of validateRoutes for entry i (Source is unset)
validateRoute(route, i) ==
    (IF route.Destination = ""
     THEN <<Err(i, "routes.destination", "cannot be empty")>>
     ELSE IF ~ParseCIDR(route.Destination).ok /\ ParseIP(route.Destination) = ""
     THEN <<Err(i, "routes.destination", "invalid IP or CIDR format")>> ELSE <<>>)
    \o (IF route.Scope # RT_SCOPE_UNIVERSE /\ route.Scope # RT_SCOPE_LINK
        THEN <<Err(i, "routes.scope", "invalid scope")>> ELSE <<>>)
    \o (IF route.Gateway # ""
        THEN IF ParseIP(route.Gateway) = ""
             THEN <<Err(i, "routes.gateway", "invalid IP address format")>> ELSE <<>>
        ELSE IF route.Scope # RT_SCOPE_LINK
        THEN <<Err(i, "routes.gateway", "must be specified for Universe scope routes")>> ELSE <<>>)
    \o (IF route.Table < 0 THEN <<Err(i, "routes.table", "must be a non-negative integer")>> ELSE <<>>)

\* The errors of the entries from i on, in order
RECURSIVE ForEach(_, _, _)
ForEach(check(_, _), list, i) ==
    IF i > Len(list) THEN <<>> ELSE check(list[i], i) \o ForEach(check, list, i + 1)

\* validateRoutes
validateRoutes(list) == ForEach(validateRoute, list, 1)

validateRule(rule, i) ==
    (IF rule.Priority < 0 \/ rule.Priority > 32767
     THEN <<Err(i, "rules.priority", "must be an integer between 0 and 32767")>> ELSE <<>>)
    \o (IF rule.Table < 0 THEN <<Err(i, "rules.table", "must be a non-negative integer")>> ELSE <<>>)
    \o (IF rule.Source # "" /\ ~ParseCIDR(rule.Source).ok
        THEN <<Err(i, "rules.source", "invalid CIDR format")>> ELSE <<>>)
    \o (IF rule.Destination # "" /\ ~ParseCIDR(rule.Destination).ok
        THEN <<Err(i, "rules.destination", "invalid CIDR format")>> ELSE <<>>)

\* validateRules
validateRules(list) == ForEach(validateRule, list, 1)

validateNeighbor(neighbor, i) ==
    (IF neighbor.Destination = "" THEN <<Err(i, "neighbors.destination", "cannot be empty")>>
     ELSE IF ParseIP(neighbor.Destination) = ""
     THEN <<Err(i, "neighbors.destination", "invalid IP address format")>> ELSE <<>>)
    \o (IF neighbor.HardwareAddr = "" THEN <<Err(i, "neighbors.hardwareAddress", "cannot be empty")>>
        ELSE IF ~ParseMAC(neighbor.HardwareAddr).ok
        THEN <<Err(i, "neighbors.hardwareAddress", "invalid Hardware Address format")>> ELSE <<>>)

\* validateNeighborConfig
validateNeighborConfig(neighbors) == ForEach(validateNeighbor, neighbors, 1)

\* A rules step that does not look at the VRF.
RulesErrorsWithVRF(config) ==
    IF Len(config.Rules) > 0 THEN validateRules(config.Rules) ELSE <<>>

\* The rules step of ValidateConfig
RulesErrors(config) ==
    IF Len(config.Rules) > 0
    THEN IF ~config.VRF.isNil
         THEN <<Err(0, "rules", "rules are not supported when VRF is enabled")>>
         ELSE validateRules(config.Rules)
    ELSE <<>>

\* config.Default()
NetworkConfigDefaulted(config) ==
    [config EXCEPT !.VRF = IF @.isNil THEN @ ELSE VRFConfigDefault(@)]

\* ValidateConfig: whether the returned configuration is nil, the (defaulted)
\* configuration and all the errors
ValidateConfig(raw) ==
    LET config == NetworkConfigDefaulted(raw.decoded)
    IN  IF raw.bytes = "none"
        THEN [isNil |-> TRUE, config |-> ZeroConfig, allErrors |-> <<>>]
        ELSE IF raw.bytes = "garbage"
        THEN [isNil |-> TRUE, config |-> ZeroConfig,
              allErrors |-> <<Err(0, "", "failed to unmarshal JSON data")>>]
        ELSE
        [isNil |-> FALSE, config |-> config,
         allErrors |-> (IF raw.unknownField
                        THEN <<Err(0, "", "failed to unmarshal strict JSON data")>> ELSE <<>>)
                       \o validateInterfaceConfig(config)
                       \o (IF Len(config.Routes) > 0 THEN validateRoutes(config.Routes) ELSE <<>>)
                       \o RulesErrors(config)
                       \o (IF Len(config.Neighbors) > 0
                           THEN validateNeighborConfig(config.Neighbors) ELSE <<>>)]

ValOthers == UNCHANGED <<engineVars, vrfs, gce, poll, inv, sysfs, dp>>

\* One call of ValidateConfig
CallValidateConfig ==
    /\ val.pc = "idle"
    /\ LET r == ValidateConfig(val.raw)
       IN  val' = [val EXCEPT !.pc = "done", !.isNil = r.isNil, !.config = r.config,
                              !.allErrors = r.allErrors]
    /\ ValOthers

InitValidate ==
    /\ InitEngine
    /\ \A ns \in Namespaces : ~links[ns]["vrf-blue"].present
    /\ vrfs = <<>> /\ gce = <<>> /\ poll = <<>> /\ inv = <<>> /\ sysfs = <<>> /\ dp = <<>>
    /\ \E raw \in RawExtensions :
          val = [pc |-> "idle", raw |-> raw, isNil |-> TRUE, config |-> ZeroConfig,
                 allErrors |-> <<>>]

NextValidate == CallValidateConfig

SpecValidate == InitValidate /\ [][NextValidate]_vars

\* The errors of entry at for the field
ErrorsAt(at, field) ==
    {k \in 1..Len(val.allErrors) : val.allErrors[k].at = at /\ val.allErrors[k].field = field}

\* C21: ValidateConfig reports at least one error for every configuration
\* that has policy rules together with a VRF on the interface.
C21_RulesWithVRFRejected ==
    (val.pc = "done" /\ val.raw.bytes = "json"
        /\ Len(val.raw.decoded.Rules) > 0 /\ ~val.raw.decoded.VRF.isNil)
        => Len(val.allErrors) >= 1

\* Well-formed rules and a well-formed VRF, nothing else amiss: the one
\* error is the one about the rules.
C21_Witness ==
    /\ val.pc = "done" /\ ~val.isNil
    /\ Len(val.config.Rules) > 0 /\ validateRules(val.config.Rules) = <<>>
    /\ ~val.config.VRF.isNil /\ validateVRFConfig(val.config.VRF) = <<>>
    /\ val.allErrors = <<Err(0, "rules", "rules are not supported when VRF is enabled")>>

\* The decoded routes that validateRoutes has looked at
Validated ==
    IF val.pc = "done" /\ ~val.isNil THEN 1..Len(val.config.Routes) ELSE {}

\* C22: validateRoutes reports an error for every route whose scope is
\* Universe and whose gateway is empty, no gateway error for a Link-scope
\* route with an empty gateway, and an error for every scope other than Link
\* or Universe.
C22_GatewayAndScope ==
    \A i \in Validated :
        LET route == val.config.Routes[i]
        IN  /\ (route.Scope = RT_SCOPE_UNIVERSE /\ route.Gateway = "")
                  => \E k \in ErrorsAt(i, "routes.gateway") :
                        val.allErrors[k].msg = "must be specified for Universe scope routes"
            /\ (route.Scope = RT_SCOPE_LINK /\ route.Gateway = "")
                  => ErrorsAt(i, "routes.gateway") = {}
            /\ (route.Scope \notin {RT_SCOPE_LINK, RT_SCOPE_UNIVERSE})
                  => ErrorsAt(i, "routes.scope") # {}

\* A Universe-scope route without a gateway whose only error is the one
\* about the gateway.
C22_Witness ==
    \E i \in Validated :
        /\ val.config.Routes[i].Scope = RT_SCOPE_UNIVERSE
        /\ val.config.Routes[i].Gateway = ""
        /\ val.allErrors = <<Err(i, "routes.gateway", "must be specified for Universe scope routes")>>

\* FNV-1a-32 of the names, from the reference implementation, in limbs:
\* 4175445284 for "vrf-blue" and 366636863 for "vrf-red"
Fnv32aReference(name) ==
    CASE name = "vrf-blue" -> [hi |-> 63712, lo |-> 15652]
      [] name = "vrf-red" -> [hi |-> 5594, lo |-> 28479]

\* The VRF that validateVRFConfig has looked at
VrfValidated == val.pc = "done" /\ ~val.isNil /\ ~val.config.VRF.isNil

C23_WitnessReserved ==
    /\ VrfValidated
    /\ val.raw.decoded.VRF.Table = {254}
    /\ ErrorsAt(0, "interface.vrf.table") # {}

\* The goroutine is at one of its two SetSysctl calls and takes the step
Writing(g) == fr[g].pc \in {"SetTcp", "SetUdp"} /\ fr'[g] # fr[g]

\* C24: every write of tcp_l3mdev_accept or udp_l3mdev_accept is made by a
\* goroutine that is pinned to its OS thread while that thread's ambient
\* namespace is the target namespace of its allocation; no write lands in
\* the host namespace or in the namespace of another allocation.
C24_SysctlWritesInTargetNs ==
    [][\A ns \in Namespaces : sysctls'[ns] # sysctls[ns] =>
          /\ ns # "host"
          /\ \E g \in Goroutines :
                /\ Writing(g)
                /\ TargetNs(g) = ns
                /\ \E t \in Threads : locked[t] = g /\ threadNs[t] = ns
          /\ \A h \in Goroutines : Writing(h) => TargetNs(h) = ns]_vars

\* Two allocations for different namespaces have both written their
\* sysctls while the other was inside its sequence.
C24_Witness ==
    \E g, h \in Goroutines :
        /\ TargetNs(g) # TargetNs(h)
        /\ InSequence(g) /\ InSequence(h)
        /\ fr[g].pc = "SysDefers" /\ fr[h].pc = "SysDefers"
        /\ fr[g].serr = NoErr /\ fr[h].serr = NoErr
        /\ \A k \in {g, h} :
              sysctls[TargetNs(k)] = {"net/ipv4/tcp_l3mdev_accept", "net/ipv4/udp_l3mdev_accept"}
        /\ sysctls["host"] = {}

\* What a request that the kernel accepted has programmed is in place.
Programmed(ns, e) ==
    CASE e.op = "RouteAdd" -> e.req \in routes[ns]
      [] e.op = "NeighAdd" -> e.req \in neighs[ns]
      [] e.op = "RuleAdd" -> e.req \in rules[ns]
      [] e.op = "LinkAdd" -> links[ns][e.req].present
      [] e.op = "LinkSetUp" -> links[ns][e.req].present /\ links[ns][e.req].up
      [] e.op = "LinkSetMaster" -> \E n \in IfNames : links[ns][n].master = e.req
      [] e.op = "SetSysctl" -> e.req \in sysctls[e.cfg]

\* What was in the kernel when the call was entered is in the kernel now.
StillThere(g) ==
    \A ns \in Namespaces :
        /\ snap[g][ns].routes \subseteq routes[ns]
        /\ snap[g][ns].neighs \subseteq neighs[ns]
        /\ snap[g][ns].rules \subseteq rules[ns]
        /\ snap[g][ns].sysctls \subseteq sysctls[ns]
        /\ \A n \in LinkNames : snap[g][ns].links[n].present => links[ns][n].present

\* C25: nothing is rolled back. When a call returns a non-nil error,
\* everything the kernel accepted earlier in the call is still programmed,
\* and no apply function takes out what was there when it was entered.
C25_NoRollback ==
    \A g \in Goroutines : fr[g].pc # "idle" =>
        /\ StillThere(g)
        /\ (fr[g].pc = "done" /\ fr[g].ret.err # NoErr) =>
              \A k \in DOMAIN log[g] : log[g][k].res = "ok" => Programmed(TargetNs(g), log[g][k])

\* applyRoutingConfig has returned an error after the kernel took one of its
\* routes, which was not there before and is there now.
C25_Witness ==
    \E g \in Goroutines :
        /\ fr[g].pc = "done" /\ fr[g].fn = "applyRoutingConfig" /\ fr[g].ret.err # NoErr
        /\ \E k \in DOMAIN log[g] :
              /\ log[g][k].op = "RouteAdd" /\ log[g][k].res = "ok"
              /\ log[g][k].req \notin snap[g][TargetNs(g)].routes
              /\ log[g][k].req \in routes[TargetNs(g)]

\* applyVRFConfig has returned an error after it created the VRF device.
C25_WitnessVrf ==
    \E g \in Goroutines :
        /\ fr[g].pc = "done" /\ fr[g].fn = "applyVRFConfig" /\ fr[g].ret.err # NoErr
        /\ \E k \in DOMAIN log[g] : log[g][k].op = "LinkAdd" /\ log[g][k].res = "ok"
        /\ links[TargetNs(g)][fr[g].vrfConfig.Name].present

\* The entries of the list with the scope, in the order of the list
OfScope(list, scope) ==
    LET Has(route) == route.Scope = scope
    IN  SelectSeq(list, Has)

C27_ValidatedRouteSubmitted ==
    \A g \in Goroutines :
        (LoopRan(fr[g]) /\ fr[g].fn = "applyRoutingConfig") =>
            \A i \in DOMAIN fr[g].routeConfig :
                validateRoute(fr[g].routeConfig[i], i) = <<>> =>
                    \E k \in RouteAdds(g) : log[g][k].cfg = fr[g].routeConfig[i]

\* C28 as claimed: when applyVRFConfig returns without error, the table it
\* returns is the routing table of the VRF device the interface is enslaved
\* to, also when the device was there before the call; on every error the
\* table returned is 0.
C28_ReturnedTableIsDeviceTable ==
    \A g \in Goroutines :
        (fr[g].pc = "done" /\ fr[g].fn = "applyVRFConfig") =>
            IF fr[g].ret.err = NoErr
            THEN LET ns == TargetNs(g)
                     master == links[ns][fr[g].ifName].master
                 IN  /\ master = fr[g].vrfConfig.Name
                     /\ links[ns][master].kind = "vrf"
                     /\ fr[g].ret.table = links[ns][master].table
            ELSE fr[g].ret.table = 0

-----------------------------------------------------------------------------
(* The device plugin: the ListAndWatch stream to the kubelet and the        *)
(* registration status, which the kubelet reports on its own.               *)

MaxSends == 8

DpOthers == UNCHANGED <<engineVars, vrfs, gce, poll, inv, sysfs, val>>

\* The kubelet opens the stream: ListAndWatch enters its loop
CallListAndWatch ==
    /\ dp.pc = "idle"
    /\ dp' = [dp EXCEPT !.pc = "Send"]
    /\ DpOthers

\* One round of the loop: the response is built and sent. A Send error is
\* logged and the loop continues; a Send that went through is followed by
\* the next round as well. No path leaves the loop.
Send ==
    /\ dp.pc = "Send"
    /\ dp.sent + dp.errors < MaxSends
    /\ \E err \in (IF dp.errors > 0 THEN {TRUE} ELSE BOOLEAN) :   \* a broken stream stays broken
          dp' = [dp EXCEPT !.sent = IF err THEN @ ELSE @ + 1,
                           !.errors = IF err THEN @ + 1 ELSE @,
                           !.afterError = IF dp.errors > 0 THEN @ + 1 ELSE @,
                           !.pc = "Send"]                        \* continue / end of the body
    /\ DpOthers

\* NotifyRegistrationStatus, under p.mu
NotifyRegistrationStatus ==
    /\ \E PluginRegistered \in BOOLEAN :
          dp' = [dp EXCEPT !.registered = PluginRegistered,
                           !.registerError = IF PluginRegistered THEN NoErr ELSE <<"status.Error">>]
    /\ DpOthers

InitPlugin ==
    /\ InitEngine
    /\ \A ns \in Namespaces : ~links[ns]["vrf-blue"].present
    /\ vrfs = <<>> /\ gce = <<>> /\ poll = <<>> /\ inv = <<>> /\ sysfs = <<>> /\ val = <<>>
    /\ dp = [pc |-> "idle", sent |-> 0, errors |-> 0, afterError |-> 0,
             registered |-> FALSE, registerError |-> NoErr]

NextPlugin == CallListAndWatch \/ Send \/ NotifyRegistrationStatus

SpecPlugin == InitPlugin /\ [][NextPlugin]_vars

\* C30 as claimed: once a Send on the stream has failed, ListAndWatch has
\* returned and has made no further Send.
C30_ReturnsAfterSendError ==
    dp.errors > 0 => (dp.pc = "returned" /\ dp.afterError = 0)

====
